---- MODULE Spec2Model ----
(***************************************************************************)
(* Stream discovery and alias reconciliation of the chaturbate_bridge      *)
(* integration: ChaturbateCoordinator (coordinator.py) as a state machine, *)
(* the camera platform's reconciliation of entities against its snapshots  *)
(* (camera.py), and the coordinator's pure functions applied to inputs     *)
(* drawn from bounded sets.                                                *)
(*                                                                         *)
(* Python values are represented as follows.                               *)
(*   Optional[T]   None is <<>>, a present value v is <<v>>                *)
(*   dict          a function whose DOMAIN is the set of keys present      *)
(*   list          a sequence                                              *)
(*   str           a TLA+ string, except the two kinds of string the code  *)
(*                 takes apart: a resolution / quality string is a         *)
(*                 sequence of tokens (Digits, Chars), a URL is the        *)
(*                 sequence of its path segments ("" is <<>>)              *)
(* ModelState.last_changed (a wall-clock stamp) is not represented.        *)
(***************************************************************************)
EXTENDS Integers, Sequences, FiniteSets, TLC

VARIABLES
    last_status,          \* self._last_status : dict model -> status
    active_streams,       \* self._active_streams : dict model -> list of alias names
    data,                 \* DataUpdateCoordinator.data : None or dict model -> ModelState
    pc,                   \* where _async_update_data is: idle, loop, return, raise
    gathered,             \* the result of asyncio.gather(*tasks), one entry per model
    idx,                  \* position of the for loop in gathered
    results,              \* the local dict results
    log,                  \* per loop iteration of this cycle: what it saw and the relay calls it made
    expose_variants,      \* the config entry's expose_variants option
    known,                \* camera.py: data["camera_known"], the aliases with an entity
    entities_by_alias,    \* camera.py: data["camera_entities"] : dict alias -> entity
    created_count,        \* the number of CBCamera objects constructed so far
    listening,            \* camera.py line 94 has registered _on_coordinator_update
    last_pass,            \* None, or what the latest reconciliation pass saw and did
    removing,             \* the entities whose async_remove is scheduled and has not
                          \* ended, where the removals are followed
    call,                 \* None, or the function applied and its arguments
    ret,                  \* None, or what that application returned
    relay,                \* the streams the relay holds: dict name -> source
    steady,               \* history: per room in a run of cycles that found it public with
                          \* one and the same manifest, that manifest and the room's relay
                          \* streams after the first cycle of the run
    heap,                 \* the objects of the coordinator: dict reference -> object
    refs,                 \* what results, coordinator.data, the gathered states and the
                          \* values of _active_streams refer to
    hass_data,            \* __init__.py: hass.data[DOMAIN] : dict entry id -> the entry's data
    entries,              \* per config entry: where its setup or unload stands, the
                          \* objects it holds and how the call ended
    switch,               \* switch.py: the recording switch's _armed and _current_stream_start
    rec,                  \* recorder.py: the switch's FFmpegRecorder: process, current_file
    procs,                \* the subprocesses created so far: each alive or exited, and
                          \* the signals it was sent
    tasks,                \* the coroutines running on the switch: where each is suspended
    finished,             \* history: None, or what the async_update that returned in the
                          \* latest step had read and done
    client,               \* a caller of the recorder's start() and stop(): where it is
                          \* suspended, and its latest call
    mgr,                  \* file_manager.py: the FileManager and where its _run task is
                          \* suspended
    store,                \* file_manager.py: None, or what _save_state wrote last
    disk,                 \* where each recording is: recorded, local, remote or gone
    moves,                \* history: the recordings moved to the remote path, each with
                          \* the _enable_auto_move of the manager that moved it
    refreshes             \* history: the refreshes the coordinator has run as one step

coordinator == <<last_status, active_streams, data, pc, gathered, idx, results, log>>
camera == <<known, entities_by_alias, created_count, listening, last_pass, removing>>
application == <<call, ret>>
environment == <<relay, steady>>
memory == <<heap, refs>>
config_entries == <<hass_data, entries>>
recording == <<switch, rec, procs, tasks, finished, client>>
storage == <<mgr, store, disk, moves>>
host == <<config_entries, recording, storage, refreshes>>
vars == <<coordinator, expose_variants, camera, application, host, environment, memory>>

-----------------------------------------------------------------------------
(* Python values *)

None == <<>>
Some(v) == <<v>>
IsNone(o) == Len(o) = 0
Truthy(o) == Len(o) = 1 /\ Len(o[1]) > 0      \* bool(x) of an Optional[str]

EmptyDict == [k \in {} |-> None]
DictGet(d, k, default) == IF k \in DOMAIN d THEN d[k] ELSE default
DictSet(d, k, v) == [x \in (DOMAIN d) \cup {k} |-> IF x = k THEN v ELSE d[x]]

\* a token of a resolution string: a maximal run of digits, or other text
Digits(n) == [n |-> n, c |-> ""]
Chars(c) == [n |-> -1, c |-> c]
IsDigits(t) == t.n >= 0

-----------------------------------------------------------------------------
(* References to objects *)

NoRef == 0
\* no results dict, no published dict, no gathered states, no recorded lists
NoRefs == [results |-> NoRef, data |-> NoRef, gathered |-> <<>>, streams |-> EmptyDict]

-----------------------------------------------------------------------------
(* Configuration of one config entry *)

models == <<"alice", "bob">>
Rooms == {models[i] : i \in 1..Len(models)}
mode == "plain"
\* DEFAULT_PREFERRED_QUALITY, which the const.py at hand does not define: the
\* preference is the token "best" or a target height such as "720p"
preferred_quality == <<Chars("best")>>
Best == <<Chars("best")>>

-----------------------------------------------------------------------------
(* Module-level helpers of coordinator.py *)

RECURSIVE SplitX(_)
\* res.split("x"): the parts between the "x" characters
SplitX(res) ==
    IF \E i \in 1..Len(res) : res[i] = Chars("x")
    THEN LET i == CHOOSE j \in 1..Len(res) :
                     /\ res[j] = Chars("x")
                     /\ \A k \in 1..(j-1) : res[k] # Chars("x")
         IN <<SubSeq(res, 1, i-1)>> \o SplitX(SubSeq(res, i+1, Len(res)))
    ELSE <<res>>

\* int(h) succeeds exactly on one run of digits
IntParses(s) == Len(s) = 1 /\ IsDigits(s[1])

\* _suffix_from_res reading w where it reads h
SuffixFromWidth(res) ==
    IF \E i \in 1..Len(res) : res[i] = Chars("x")
    THEN LET parts == SplitX(res)
         IN IF Len(parts) = 2 /\ IntParses(parts[1])
            THEN Some(ToString(parts[1][1].n) \o "p")
            ELSE None
    ELSE None

\* _suffix_from_res: "{int(h)}p" for "WxH", None when there is no "x", when the
\* split does not give two parts or when int(h) raises ValueError
_suffix_from_res(res) ==
    IF \E i \in 1..Len(res) : res[i] = Chars("x")
    THEN LET parts == SplitX(res)
         IN IF Len(parts) = 2 /\ IntParses(parts[2])
            THEN Some(ToString(parts[2][1].n) \o "p")
            ELSE None
    ELSE None

\* _res_to_num: re.search(r'(\d+)p?', res), the first run of digits, or 0
_res_to_num(res) ==
    IF \E i \in 1..Len(res) : IsDigits(res[i])
    THEN res[CHOOSE i \in 1..Len(res) :
                 IsDigits(res[i]) /\ \A k \in 1..(i-1) : ~IsDigits(res[k])].n
    ELSE 0

Abs(n) == IF n < 0 THEN -n ELSE n

Variant(bw, res, url) == [bandwidth |-> bw, resolution |-> res, url |-> url]

\* the sort key of _fetch_variants, a pair of integers
SortKey(v, pref) ==
    IF pref = Best
    THEN <<-v.bandwidth, -_res_to_num(v.resolution)>>
    ELSE <<Abs(_res_to_num(v.resolution) - _res_to_num(pref)), -v.bandwidth>>

KeyLess(a, b) == a[1] < b[1] \/ (a[1] = b[1] /\ a[2] < b[2])

RECURSIVE InsertSorted(_, _, _)
\* v goes after every element whose key is not greater (list.sort is stable)
InsertSorted(sorted, v, pref) ==
    IF sorted = <<>> THEN <<v>>
    ELSE IF KeyLess(SortKey(v, pref), SortKey(Head(sorted), pref))
         THEN <<v>> \o sorted
         ELSE <<Head(sorted)>> \o InsertSorted(Tail(sorted), v, pref)

RECURSIVE SortVariants(_, _)
SortVariants(vs, pref) ==
    IF vs = <<>> THEN <<>>
    ELSE InsertSorted(SortVariants(SubSeq(vs, 1, Len(vs)-1), pref), vs[Len(vs)], pref)

-----------------------------------------------------------------------------
(* A master manifest: the stripped non-blank lines of the response text *)

InfLine(bw, res) == [kind |-> "inf", bw |-> bw, res |-> res, ref |-> <<>>]
UriLine(ref) == [kind |-> "uri", bw |-> None, res |-> None, ref |-> ref]
CommentLine == [kind |-> "comment", bw |-> None, res |-> None, ref |-> <<>>]

\* line.startswith("#"): stream-info lines and comments do, URI lines do not
StartsWithHash(line) == line.kind # "uri"

\* urljoin(master_url, vurl) for a relative reference of one segment;
\* an absolute reference (more than one segment) replaces the base
urljoin(base, ref) ==
    IF Len(ref) > 1 THEN ref ELSE SubSeq(base, 1, Len(base) - 1) \o ref

RECURSIVE ParseEveryLine(_, _, _)
\* the for loop without the test of line 148: every line announces a variant
ParseEveryLine(lines, i, master_url) ==
    IF i > Len(lines) THEN <<>>
    ELSE LET line == lines[i]
             bw == IF IsNone(line.bw) THEN 0 ELSE line.bw[1]
             res == IF IsNone(line.res) THEN <<>> ELSE line.res[1]
             found == i + 1 <= Len(lines) /\ ~StartsWithHash(lines[i+1])
         IN (IF found
             THEN <<Variant(bw, res, urljoin(master_url, lines[i+1].ref))>>
             ELSE <<>>) \o ParseEveryLine(lines, i + 1, master_url)

RECURSIVE ParseFrom(_, _, _)
\* the for loop of _fetch_variants over enumerate(lines), from index i
ParseFrom(lines, i, master_url) ==
    IF i > Len(lines) THEN <<>>
    ELSE LET line == lines[i]
             bw == IF IsNone(line.bw) THEN 0 ELSE line.bw[1]
             res == IF IsNone(line.res) THEN <<>> ELSE line.res[1]
             found == /\ line.kind = "inf"
                      /\ i + 1 <= Len(lines)
                      /\ ~StartsWithHash(lines[i+1])
         IN (IF found
             THEN <<Variant(bw, res, urljoin(master_url, lines[i+1].ref))>>
             ELSE <<>>) \o ParseFrom(lines, i + 1, master_url)

ParseManifest(lines, master_url) == ParseFrom(lines, 1, master_url)

-----------------------------------------------------------------------------
(* What the outside world answers *)

NoException == ""

JsonObject(status, url, title, viewers) ==
    [json |-> "object", room_status |-> status, url |-> url,
     title |-> title, viewer_count |-> viewers]
\* a body that decodes to something that is no object, or does not decode
\* ("invalid": r.json() raises JSONDecodeError; "empty": a body of nothing but
\* whitespace, for which aiohttp's r.json() returns None without decoding)
JsonOther(kind) ==
    [json |-> kind, room_status |-> None, url |-> None,
     title |-> None, viewer_count |-> None]
EmptyJs == JsonObject(None, None, None, None)       \* js = {}

Http(status, body) == [kind |-> "http", status |-> status, body |-> body]
Failed(exc) == [kind |-> exc, status |-> 0, body |-> JsonOther("invalid")]

MasterUrl(model) == <<"https://cdn", model, "master.m3u8">>

\* the answers of the status endpoint for the first room
AllPollResponses(model) ==
    { Http(200, JsonObject(Some("public"), Some(MasterUrl(model)), Some("show"), Some(7))),
      Http(200, JsonObject(Some("public"), None, None, None)),
      Http(200, JsonObject(Some("offline"), None, None, None)),
      Http(200, JsonObject(Some("private"), Some(MasterUrl(model)), None, None)),
      Http(200, EmptyJs),
      Http(200, JsonOther("invalid")),
      Http(200, JsonOther("array")),
      Http(500, JsonObject(Some("public"), Some(MasterUrl(model)), Some("show"), Some(7))),
      Failed("ClientError") }

\* the other rooms answer in fewer ways
PollResponses(model) ==
    IF model = models[1] THEN AllPollResponses(model)
    ELSE { Http(200, JsonObject(Some("public"), Some(MasterUrl(model)), Some("show"), Some(7))),
           Http(200, JsonObject(Some("offline"), None, None, None)),
           Http(200, JsonOther("null")),
           Failed("TimeoutError") }

R720 == <<Digits(1280), Chars("x"), Digits(720)>>
R1080 == <<Digits(1920), Chars("x"), Digits(1080)>>

\* the renditions a manifest may list: a stream-info line and its URI line
Renditions ==
    << <<InfLine(Some(800000), Some(R720)), UriLine(<<"720p.m3u8">>)>>,
       <<InfLine(Some(1200000), Some(R720)), UriLine(<<"720p_hi.m3u8">>)>>,
       <<InfLine(Some(2000000), Some(R1080)), UriLine(<<"1080p.m3u8">>)>> >>

\* the most renditions in one manifest
MaxRenditions == 2

RECURSIVE ManifestOf(_, _)
\* the manifest that lists the renditions numbered in S, from number i on
ManifestOf(S, i) ==
    IF i > Len(Renditions) THEN <<>>
    ELSE (IF i \in S THEN Renditions[i] ELSE <<>>) \o ManifestOf(S, i + 1)

\* the manifests the first room may serve: a header line, then up to
\* MaxRenditions renditions (none, one, two of one height, two of different heights)
AllManifests ==
    { <<CommentLine>> \o ManifestOf(S, 1) :
        S \in {T \in SUBSET (1..Len(Renditions)) : Cardinality(T) <= MaxRenditions} }

\* the other rooms serve one rendition
Manifests(model) ==
    IF model = models[1] THEN AllManifests
    ELSE { <<CommentLine>> \o Renditions[1] }

ManifestResponse(kind, status, lines) == [kind |-> kind, status |-> status, lines |-> lines]

ManifestResponses(model) ==
    { ManifestResponse("http", 200, m) : m \in Manifests(model) }
    \cup { ManifestResponse("TimeoutError", 0, <<>>) }

\* how the relay answers one PUT or DELETE
RelayOutcomes == {"ok", "http_error", "transport_error"}

-----------------------------------------------------------------------------
(* ChaturbateCoordinator *)

ModelState(status, url, title, viewers, variants, names) ==
    [status |-> status, url |-> url, title |-> title, viewer_count |-> viewers,
     variants |-> variants, variant_stream_names |-> names]

\* _fetch_one: the snapshot of one room, or the exception that leaves the task
_fetch_one(model, resp) ==
    LET js == IF resp.kind = "http" /\ resp.body.json # "invalid"
              THEN resp.body          \* r.json() decoded the body, whatever r.status
              ELSE EmptyJs            \* the except clauses leave js = {}
    IN IF js.json # "object"
       THEN [model |-> model, raised |-> "AttributeError",     \* js.get on a list, None, a number
             state |-> ModelState("offline", None, None, None, None, None)]
       ELSE [model |-> model, raised |-> NoException,
             state |-> ModelState(IF IsNone(js.room_status) THEN "offline" ELSE js.room_status[1],
                                  js.url, js.title, js.viewer_count, None, None)]

\* _fetch_variants: a transport error is logged and execution goes on to
\* text.splitlines() with text unbound; any other exception returns []
_fetch_variants(master_url, model, resp, pref) ==
    IF resp.kind \in {"ClientError", "TimeoutError"}
    THEN [raised |-> "UnboundLocalError", variants |-> <<>>]
    ELSE IF resp.kind # "http"
    THEN [raised |-> NoException, variants |-> <<>>]
    ELSE [raised |-> NoException,
          variants |-> SortVariants(ParseManifest(resp.lines, master_url), pref)]

\* the source specification built for variant url and the room's page as referer
SourceSpec(url, model) == [mode |-> mode, url |-> url, referer |-> model]

RelayCall(op, name, src) == [op |-> op, name |-> name, src |-> src]
NoSrc == SourceSpec(<<>>, "")

\* _upsert_go2rtc without its except clauses: a failed PUT raises
UpsertPropagates(name, src, outcome) ==
    [call |-> RelayCall("PUT", name, src), ok |-> outcome = "ok",
     raised |-> IF outcome = "ok" THEN NoException ELSE "ClientError"]

\* _upsert_go2rtc: one PUT; every failure is logged and swallowed
_upsert_go2rtc(name, src, outcome) ==
    [call |-> RelayCall("PUT", name, src), ok |-> outcome = "ok", raised |-> NoException]

\* the loop body without its except clauses: a failed DELETE raises
RemovePropagates(name, outcome) ==
    [call |-> RelayCall("DELETE", name, NoSrc), ok |-> outcome = "ok",
     raised |-> IF outcome = "ok" THEN NoException ELSE "ClientError"]

\* the body of the for loop of _cleanup_model_streams: one DELETE, failures swallowed
RemoveStream(name, outcome) ==
    [call |-> RelayCall("DELETE", name, NoSrc), ok |-> outcome = "ok", raised |-> NoException]

\* the calls made until one raises
RECURSIVE UntilRaise(_)
UntilRaise(rs) ==
    IF rs = <<>> THEN <<>>
    ELSE IF Head(rs).raised # NoException THEN <<Head(rs)>>
    ELSE <<Head(rs)>> \o UntilRaise(Tail(rs))

RaisedBy(rs) == IF rs = <<>> THEN NoException ELSE rs[Len(rs)].raised
CallsOf(rs) == [i \in 1..Len(rs) |-> rs[i].call]
AnyFailed(rs) == \E i \in 1..Len(rs) : ~rs[i].ok

\* the alias name _upsert_variants gives a variant
VariantName(model, v) ==
    LET s == _suffix_from_res(v.resolution)
        suffix == IF IsNone(s) THEN ToString(v.bandwidth \div 1000) \o "k" ELSE s[1]
    IN model \o "_" \o suffix

\* _upsert_variants: one PUT per variant, the list of names in variant order
_upsert_variants(model, variants, outcomes) ==
    LET rs == UntilRaise([i \in 1..Len(variants) |->
                  _upsert_go2rtc(VariantName(model, variants[i]),
                                 SourceSpec(variants[i].url, model), outcomes[i])])
    IN [names |-> [i \in 1..Len(variants) |-> VariantName(model, variants[i])],
        calls |-> CallsOf(rs), failed |-> AnyFailed(rs), raised |-> RaisedBy(rs)]

\* an upsert that is no upsert: the alias is removed when the relay has it
ToggleAlias(alias, variant, outcome) ==
    IF alias \in DOMAIN relay
    THEN [call |-> RelayCall("DELETE", alias, NoSrc), ok |-> outcome = "ok", raised |-> NoException]
    ELSE _upsert_go2rtc(alias, SourceSpec(variant.url, alias), outcome)

_upsert_alias_from_variant(alias, variant, outcome) ==
    _upsert_go2rtc(alias, SourceSpec(variant.url, alias), outcome)

\* _cleanup_model_streams without its last line: the recorded list is kept
CleanupKeepsList(model, streams, outcomes) ==
    LET recorded == DictGet(streams, model, <<>>)
        rs == UntilRaise([i \in 1..Len(recorded) |-> RemoveStream(recorded[i], outcomes[i])])
    IN [calls |-> CallsOf(rs), failed |-> AnyFailed(rs), raised |-> RaisedBy(rs),
        streams |-> streams]

\* _cleanup_model_streams: one DELETE per recorded name, then the list is emptied
_cleanup_model_streams(model, streams, outcomes) ==
    LET recorded == DictGet(streams, model, <<>>)
        rs == UntilRaise([i \in 1..Len(recorded) |-> RemoveStream(recorded[i], outcomes[i])])
    IN [calls |-> CallsOf(rs), failed |-> AnyFailed(rs), raised |-> RaisedBy(rs),
        streams |-> IF RaisedBy(rs) = NoException THEN DictSet(streams, model, <<>>) ELSE streams]

\* line 86 without the status test
LiveByUrlAlone(state) == Truthy(state.url)

\* line 86: the room is handled as live
IsLive(state) == state.status = "public" /\ Truthy(state.url)
\* line 98: the room left the public status
LeftPublic(prev, state) == prev = Some("public") /\ state.status # "public"
\* the head of the list instead of its last element
FirstVariant(variants) == variants[1]
\* line 92: the variant whose url the room's own alias gets
BestVariant(variants) == variants[Len(variants)]

InList(x, s) == \E i \in 1..Len(s) : s[i] = x

-----------------------------------------------------------------------------
(* _async_update_data, one iteration of its for loop at a time *)

LogEntry(g, prev, recorded, manifest, variants, calls, failed, raised) ==
    [model |-> g.model, prev |-> prev, status |-> g.state.status, url |-> g.state.url,
     recorded |-> recorded, manifest |-> manifest, variants |-> variants,
     calls |-> calls, failed |-> failed, raised |-> raised]

\* lines 83-101 for the gathered pair g, given the manifest response and the
\* relay's answers to the calls of this iteration, in call order
Iteration(g, mresp, outcomes) ==
    LET model == g.model
        state == g.state
        prev == IF model \in DOMAIN last_status THEN Some(last_status[model]) ELSE None
        recorded == DictGet(active_streams, model, <<>>)
    IN IF IsLive(state)
       THEN LET fv == _fetch_variants(state.url[1], model, mresp, preferred_quality)
                variants == fv.variants
                uv == _upsert_variants(model, variants, outcomes)
                alias == _upsert_alias_from_variant(model, BestVariant(variants),
                                                    outcomes[Len(variants) + 1])
                names == IF InList(model, uv.names) THEN uv.names ELSE Append(uv.names, model)
            IN IF fv.raised # NoException
               THEN [state |-> state, streams |-> active_streams,
                     entry |-> LogEntry(g, prev, recorded, mresp.kind, <<>>, <<>>, FALSE, fv.raised)]
               ELSE IF uv.raised # NoException
               THEN [state |-> [state EXCEPT !.variants = Some(variants)],
                     streams |-> active_streams,
                     entry |-> LogEntry(g, prev, recorded, mresp.kind, variants,
                                        uv.calls, uv.failed, uv.raised)]
               ELSE IF variants = <<>>
               THEN [state |-> [state EXCEPT !.variants = Some(variants),
                                             !.variant_stream_names = Some(uv.names)],
                     streams |-> active_streams,
                     entry |-> LogEntry(g, prev, recorded, mresp.kind, variants,
                                        uv.calls, uv.failed, NoException)]
               ELSE IF alias.raised # NoException
               THEN [state |-> [state EXCEPT !.variants = Some(variants),
                                             !.variant_stream_names = Some(uv.names)],
                     streams |-> active_streams,
                     entry |-> LogEntry(g, prev, recorded, mresp.kind, variants,
                                        Append(uv.calls, alias.call),
                                        uv.failed \/ ~alias.ok, alias.raised)]
               ELSE \* names is the list state.variant_stream_names refers to
                    [state |-> [state EXCEPT !.variants = Some(variants),
                                             !.variant_stream_names = Some(names)],
                     streams |-> DictSet(active_streams, model, names),
                     entry |-> LogEntry(g, prev, recorded, mresp.kind, variants,
                                        Append(uv.calls, alias.call),
                                        uv.failed \/ ~alias.ok, NoException)]
       ELSE IF LeftPublic(prev, state)
       THEN LET cl == _cleanup_model_streams(model, active_streams, outcomes)
            IN [state |-> IF cl.raised = NoException
                          THEN [state EXCEPT !.variants = None, !.variant_stream_names = None]
                          ELSE state,
                streams |-> cl.streams,
                entry |-> LogEntry(g, prev, recorded, "none", <<>>, cl.calls, cl.failed, cl.raised)]
       ELSE [state |-> state, streams |-> active_streams,
             entry |-> LogEntry(g, prev, recorded, "none", <<>>, <<>>, FALSE, NoException)]

NoFetch == ManifestResponse("none", 0, <<>>)

\* the manifest responses the iteration for g can meet
ManifestInputs(g) == IF IsLive(g.state) THEN ManifestResponses(g.model) ELSE {NoFetch}

\* the number of relay calls the iteration for g makes when none raises
NeededCalls(g, mresp) ==
    IF IsLive(g.state)
    THEN LET n == Len(_fetch_variants(g.state.url[1], g.model, mresp, preferred_quality).variants)
         IN IF n = 0 THEN 0 ELSE n + 1
    ELSE IF LeftPublic(IF g.model \in DOMAIN last_status
                       THEN Some(last_status[g.model]) ELSE None, g.state)
    THEN Len(DictGet(active_streams, g.model, <<>>))
    ELSE 0

\* the config entries of the host
EntryIds == {"entry_1", "entry_2"}

\* a call that has not ended, that returned v, that raised the exception x
Returned(v) == Some([kind |-> "return", value |-> v])
Raised(x) == Some([kind |-> "raise", value |-> x])

\* no entry is set up: hass.data holds nothing of the domain
NotLoaded ==
    [pc |-> "not_loaded", result |-> None, coord |-> None, file_manager |-> None,
     unload_ok |-> None, polled |-> None]

\* the coroutines that run on one recording switch: the platform's poll and
\* the two service calls
TaskIds == {"async_update", "async_turn_on", "async_turn_off"}

Idle ==
    [pc |-> "idle", alone |-> FALSE, live |-> FALSE, running |-> FALSE, spawned |-> None,
     waited |-> None]

\* a subprocess and the signals it was sent
Process(state, signals) == [state |-> state, signals |-> signals]

\* recorder.py lines 10-15
NewRecorder == [process |-> None, current_file |-> None]

\* the recordings followed
Files == {"a.mkv", "b.mkv"}

\* no FileManager has been constructed
NoFileManager ==
    [pc |-> "none", serial |-> 0, remote |-> FALSE, enable_auto_move |-> FALSE,
     running |-> FALSE, pending_moves |-> <<>>, nas_online |-> FALSE,
     pending_files |-> 0, i |-> 0, completed |-> <<>>, removed |-> <<>>]

HostAtStart ==
    /\ hass_data = EmptyDict
    /\ entries = [e \in EntryIds |-> NotLoaded]
    /\ switch = [armed |-> FALSE, current_stream_start |-> FALSE]
    /\ rec = NewRecorder
    /\ procs = <<>>
    /\ tasks = [t \in TaskIds |-> Idle]
    /\ finished = None
    /\ client = [pc |-> "idle", call |-> None]
    /\ mgr = NoFileManager
    /\ store = None
    /\ disk = [f \in Files |-> "recorded"]
    /\ moves = {}
    /\ refreshes = 0

Init ==
    /\ last_status = EmptyDict
    /\ active_streams = EmptyDict
    /\ data = None
    /\ pc = "idle"
    /\ gathered = <<>>
    /\ idx = 1
    /\ results = EmptyDict
    /\ log = <<>>
    /\ expose_variants = TRUE
    /\ known = {}
    /\ entities_by_alias = EmptyDict
    /\ created_count = 0
    /\ listening = FALSE
    /\ last_pass = None
    /\ removing = {}
    /\ call = None
    /\ ret = None
    /\ relay = EmptyDict
    /\ steady = EmptyDict
    /\ heap = EmptyDict
    /\ refs = NoRefs
    /\ HostAtStart

\* lines 80-82: the pollers of all models run; gather re-raises what a poller raised
Gather ==
    /\ pc = "idle"
    /\ \E resp \in [Rooms -> UNION {PollResponses(m) : m \in Rooms}] :
          /\ \A m \in Rooms : resp[m] \in PollResponses(m)
          /\ gathered' = [i \in 1..Len(models) |-> _fetch_one(models[i], resp[models[i]])]
    /\ pc' = IF \E i \in 1..Len(models) : gathered'[i].raised # NoException THEN "raise"
             ELSE IF Len(models) = 0 THEN "return" ELSE "loop"
    /\ idx' = 1
    /\ results' = EmptyDict
    /\ log' = <<>>
    /\ UNCHANGED <<last_status, active_streams, data>>
    /\ UNCHANGED <<expose_variants, camera, application, host, environment, memory>>

\* lines 83-101 for gathered[idx]
Iterate ==
    /\ pc = "loop"
    /\ LET g == gathered[idx]
       IN \E mresp \in ManifestInputs(g) :
          \E outcomes \in [1..NeededCalls(g, mresp) -> RelayOutcomes] :
             LET it == Iteration(g, mresp, outcomes)
             IN /\ results' = DictSet(results, g.model, it.state)
                /\ last_status' = DictSet(last_status, g.model, g.state.status)
                /\ active_streams' = it.streams
                /\ log' = Append(log, it.entry)
                /\ pc' = IF it.entry.raised # NoException THEN "raise"
                         ELSE IF idx = Len(gathered) THEN "return" ELSE "loop"
                /\ idx' = idx + 1
    /\ UNCHANGED <<data, gathered>>
    /\ UNCHANGED <<expose_variants, camera, application, host, environment, memory>>

\* line 102: the refresh succeeded, results become coordinator.data
Return ==
    /\ pc = "return"
    /\ data' = Some(results)
    /\ pc' = "idle"
    /\ gathered' = <<>>
    /\ idx' = 1
    /\ results' = EmptyDict
    /\ log' = <<>>
    /\ UNCHANGED <<last_status, active_streams>>
    /\ UNCHANGED <<expose_variants, camera, application, host, environment, memory>>

\* an exception left _async_update_data: the refresh failed, data stays as it was
Raise ==
    /\ pc = "raise"
    /\ pc' = "idle"
    /\ gathered' = <<>>
    /\ idx' = 1
    /\ results' = EmptyDict
    /\ log' = <<>>
    /\ UNCHANGED <<last_status, active_streams, data>>
    /\ UNCHANGED <<expose_variants, camera, application, host, environment, memory>>

Next == Gather \/ Iterate \/ Return \/ Raise

Spec == Init /\ [][Next]_vars

\* the same coordinator under a config entry whose expose_variants option is off
InitVariantsHidden ==
    /\ last_status = EmptyDict
    /\ active_streams = EmptyDict
    /\ data = None
    /\ pc = "idle"
    /\ gathered = <<>>
    /\ idx = 1
    /\ results = EmptyDict
    /\ log = <<>>
    /\ expose_variants = FALSE
    /\ known = {}
    /\ entities_by_alias = EmptyDict
    /\ created_count = 0
    /\ listening = FALSE
    /\ last_pass = None
    /\ removing = {}
    /\ call = None
    /\ ret = None
    /\ relay = EmptyDict
    /\ steady = EmptyDict
    /\ heap = EmptyDict
    /\ refs = NoRefs
    /\ HostAtStart

SpecVariantsHidden == InitVariantsHidden /\ [][Next]_vars

-----------------------------------------------------------------------------
(* The camera platform (camera.py): entities follow the published snapshots *)

\* lines 86-101 when nothing raises: the snapshot of the gathered pair g after
\* its iteration, given the manifest response
Snapshot(g, mresp) ==
    IF IsLive(g.state)
    THEN LET variants == _fetch_variants(g.state.url[1], g.model, mresp, preferred_quality).variants
             uv == _upsert_variants(g.model, variants, [i \in 1..Len(variants) |-> "ok"])
         IN [g.state EXCEPT
                !.variants = Some(variants),
                !.variant_stream_names =
                    Some(IF variants = <<>> \/ InList(g.model, uv.names)
                         THEN uv.names ELSE Append(uv.names, g.model))]
    ELSE g.state

\* the snapshots a refresh that succeeds can hold for room m
Snapshots(m) ==
    UNION { { Snapshot(g, mresp) :
                mresp \in {x \in ManifestInputs(g) : x.kind \in {"http", "none"}} } :
            g \in {x \in {_fetch_one(m, r) : r \in PollResponses(m)} :
                      x.raised = NoException} }

RECURSIVE CollectionsFrom(_)
\* the results dicts over the rooms models[i..]: one snapshot per room
CollectionsFrom(i) ==
    IF i > Len(models) THEN {EmptyDict}
    ELSE { DictSet(d, models[i], s) :
             d \in CollectionsFrom(i + 1), s \in Snapshots(models[i]) }

\* the collections a refresh can publish
Collections == CollectionsFrom(1)

\* the suffixes _upsert_variants can give the alias of a rendition
Suffixes ==
    { LET inf == Renditions[i][1]
          s == _suffix_from_res(inf.res[1])
      IN IF IsNone(s) THEN ToString(inf.bw[1] \div 1000) \o "k" ELSE s[1] :
        i \in 1..Len(Renditions) }

\* name.replace(f"{m}_", ""): the suffix of one of m's variant names, and the
\* name itself when it does not hold "{m}_"
StripModel(name, m) ==
    IF \E s \in Suffixes : name = m \o "_" \o s
    THEN CHOOSE s \in Suffixes : name = m \o "_" \o s
    ELSE name

\* a value of the wants dict; the dict is the sequence of its values in
\* insertion order, its keys are their aliases
Meta(m, alias, title) == [model |-> m, alias |-> alias, title |-> title]
Keys(wants) == {wants[i].alias : i \in 1..Len(wants)}

RECURSIVE AddVariantAliases(_, _, _, _)
\* lines 54-57: the names of m's snapshot from index i on, each once
AddVariantAliases(wants, m, names, i) ==
    IF i > Len(names) THEN wants
    ELSE AddVariantAliases(
             IF names[i] \in Keys(wants) THEN wants
             ELSE Append(wants, Meta(m, names[i], m \o " " \o StripModel(names[i], m))),
             m, names, i + 1)

RECURSIVE DesiredFrom(_, _, _, _)
\* lines 47-57: the for loop over models from index i on
DesiredFrom(wants, d, expose, i) ==
    IF i > Len(models) THEN wants
    ELSE LET m == models[i]
         IN IF m \notin DOMAIN d \/ d[m].status # "public"
            THEN DesiredFrom(wants, d, expose, i + 1)
            ELSE LET best == IF m \in Keys(wants)
                             THEN [k \in 1..Len(wants) |->
                                      IF wants[k].alias = m
                                      THEN Meta(m, m, m \o " (best)") ELSE wants[k]]
                             ELSE Append(wants, Meta(m, m, m \o " (best)"))
                     names == d[m].variant_stream_names
                 IN DesiredFrom(IF expose /\ Truthy(names)
                                THEN AddVariantAliases(best, m, names[1], 1)
                                ELSE best,
                                d, expose, i + 1)

\* desired_aliases with line 53 reading only the snapshot's list
AliasesWhateverOption(cdata, expose) ==
    IF IsNone(cdata) \/ DOMAIN cdata[1] = {} THEN <<>>
    ELSE DesiredFrom(<<>>, cdata[1], TRUE, 1)

\* desired_aliases: what coord.data and the expose_variants option ask for
desired_aliases(cdata, expose) ==
    IF IsNone(cdata) \/ DOMAIN cdata[1] = {} THEN <<>>
    ELSE DesiredFrom(<<>>, cdata[1], expose, 1)

\* a CBCamera object; id tells one construction from another
CBCamera(m, alias, title, id) == [model |-> m, alias |-> alias, title |-> title, id |-> id]

Added(k, ents, created, count) ==
    [known |-> k, entities |-> ents, created |-> created, count |-> count]

RECURSIVE AddEvery(_, _, _, _, _)
\* lines 76-81 without the test of line 77
AddEvery(wants, k, ents, count, i) ==
    IF i > Len(wants) THEN Added(k, ents, {}, count)
    ELSE LET meta == wants[i]
             ent == CBCamera(meta.model, meta.alias, meta.title, count + 1)
             rest == AddEvery(wants, k \cup {meta.alias},
                              DictSet(ents, meta.alias, ent), count + 1, i + 1)
         IN [rest EXCEPT !.created = @ \cup {meta.alias}]

RECURSIVE AddNew(_, _, _, _, _)
\* lines 76-81 (and 62-67): an entity for every wanted alias that is not known
AddNew(wants, k, ents, count, i) ==
    IF i > Len(wants) THEN Added(k, ents, {}, count)
    ELSE LET meta == wants[i]
         IN IF meta.alias \notin k
            THEN LET ent == CBCamera(meta.model, meta.alias, meta.title, count + 1)
                     rest == AddNew(wants, k \cup {meta.alias},
                                    DictSet(ents, meta.alias, ent), count + 1, i + 1)
                 IN [rest EXCEPT !.created = @ \cup {meta.alias}]
            ELSE AddNew(wants, k, ents, count, i + 1)

\* lines 86-91 without line 92: the alias stays in known
RemoveKeepsKnown(wants, k, ents) ==
    LET to_remove == {a \in k : a \notin Keys(wants)}
    IN [known |-> k,
        entities |-> [a \in (DOMAIN ents) \ to_remove |-> ents[a]],
        destroyed |-> to_remove \cap DOMAIN ents]

\* lines 86-92: the known aliases that are not wanted lose their entity, whose
\* removal is scheduled, and leave known
RemoveGone(wants, k, ents) ==
    LET to_remove == {a \in k : a \notin Keys(wants)}
    IN [known |-> k \ to_remove,
        entities |-> [a \in (DOMAIN ents) \ to_remove |-> ents[a]],
        destroyed |-> to_remove \cap DOMAIN ents]

\* line 91: the tasks scheduled for the entities popped for these aliases
Scheduled(ents, destroyed) == {ents[a] : a \in destroyed}

\* the most CBCamera objects constructed in one behaviour
MaxCreated == 6

\* the platform is set up after the coordinator's first refresh succeeded
\* (__init__.py lines 55 and 83), under either value of the option
InitCamera ==
    /\ last_status = EmptyDict
    /\ active_streams = EmptyDict
    /\ data \in {Some(d) : d \in Collections}
    /\ pc = "idle"
    /\ gathered = <<>>
    /\ idx = 1
    /\ results = EmptyDict
    /\ log = <<>>
    /\ expose_variants \in BOOLEAN
    /\ known = {}
    /\ entities_by_alias = EmptyDict
    /\ created_count = 0
    /\ listening = FALSE
    /\ last_pass = None
    /\ removing = {}
    /\ call = None
    /\ ret = None
    /\ relay = EmptyDict
    /\ steady = EmptyDict
    /\ heap = EmptyDict
    /\ refs = NoRefs
    /\ HostAtStart

\* what a reconciliation pass saw and did
Pass(wants, before, created, destroyed) ==
    [wants |-> wants, before |-> before, created |-> created, destroyed |-> destroyed]

\* camera.py lines 60-94: the initial add, then the listener is registered
async_setup_entry ==
    /\ ~listening
    /\ LET add == AddNew(desired_aliases(data, expose_variants),
                         known, entities_by_alias, created_count, 1)
       IN /\ add.count <= MaxCreated
          /\ known' = add.known
          /\ entities_by_alias' = add.entities
          /\ created_count' = add.count
    /\ listening' = TRUE
    /\ UNCHANGED <<coordinator, expose_variants, last_pass, removing, application, host,
                   environment, memory>>

\* a refresh publishes collection d and the coordinator calls its listener:
\* camera.py lines 72-92; the removals it schedules are in last_pass.destroyed
\* and are not followed further
_on_coordinator_update ==
    /\ listening
    /\ \E d \in Collections :
          LET wants == desired_aliases(Some(d), expose_variants)
              add == AddNew(wants, known, entities_by_alias, created_count, 1)
              rem == RemoveGone(wants, add.known, add.entities)
          IN /\ add.count <= MaxCreated
             /\ data' = Some(d)
             /\ known' = rem.known
             /\ entities_by_alias' = rem.entities
             /\ created_count' = add.count
             /\ last_pass' = Some(Pass(Keys(wants), known, add.created, rem.destroyed))
    /\ UNCHANGED <<last_status, active_streams, pc, gathered, idx, results, log>>
    /\ UNCHANGED <<expose_variants, listening, removing, application, host, environment,
                   memory>>

NextCamera == async_setup_entry \/ _on_coordinator_update

SpecCamera == InitCamera /\ [][NextCamera]_vars

-----------------------------------------------------------------------------
(* The coordinator's functions applied to arguments drawn from bounded sets *)

\* _res_key: int(h) of "WxH", 0 without an "x" or when the unpacking or int(h) raises
_res_key(res) ==
    IF \E i \in 1..Len(res) : res[i] = Chars("x")
    THEN LET parts == SplitX(res)
         IN IF Len(parts) = 2 /\ IntParses(parts[2]) THEN parts[2][1].n ELSE 0
    ELSE 0

\* a preferred_quality that names a target such as "720p"
Target(n) == <<Digits(n), Chars("p")>>
Preferences == {Best, Target(720)}

\* the variants a list handed to the sort is made of: two bandwidths, and a
\* landscape, a portrait, a smaller and a missing resolution
VariantPool ==
    { Variant(bw, res, <<"https://cdn", "v.m3u8">>) :
        bw \in {800000, 2000000},
        res \in { R720,
                  <<Digits(1080), Chars("x"), Digits(1920)>>,
                  <<Digits(640), Chars("x"), Digits(360)>>,
                  <<>> } }

\* the longest list handed to the sort
MaxVariants == 2

\* the lines a manifest text is made of
LinePool ==
    { InfLine(Some(800000), Some(R720)),
      InfLine(None, None),
      UriLine(<<"a.m3u8">>),
      UriLine(<<"https://other", "b.m3u8">>),
      CommentLine }

\* the most lines in a manifest text
MaxLines == 3

SeqsUpTo(S, n) == UNION { [1..k -> S] : k \in 0..n }

\* what the status endpoint can answer: any status with any body, or no answer
PollBodies(model) ==
    { JsonObject(s, u, t, v) :
        s \in {None, Some("public"), Some("offline"), Some("private")},
        u \in {None, Some(<<>>), Some(MasterUrl(model))},
        t \in {None, Some("show")},
        v \in {None, Some(7)} }
    \cup { JsonOther(k) : k \in {"invalid", "empty", "array", "null", "number"} }

PollAnswers(model) ==
    { Http(status, body) : status \in {200, 404, 500}, body \in PollBodies(model) }
    \cup { Failed(exc) : exc \in {"ClientError", "TimeoutError"} }

ManifestAnswers ==
    { ManifestResponse("http", status, lines) :
        status \in {200, 404}, lines \in SeqsUpTo(LinePool, MaxLines) }
    \cup { ManifestResponse(exc, 0, <<>>) : exc \in {"ClientError", "TimeoutError", "Exception"} }

\* the variants whose alias is named: resolutions with and without a height
NamedPool ==
    { Variant(bw, res, <<"https://cdn", "v.m3u8">>) :
        bw \in {800000, 1200500},
        res \in { R720,
                  <<Digits(1080), Chars("x"), Digits(1920)>>,
                  <<>>,
                  <<Digits(720), Chars("p")>>,
                  <<Digits(1280), Chars("x")>>,
                  <<Digits(1280), Chars("x"), Chars("high")>>,
                  <<Digits(1280), Chars("x"), Digits(720), Chars("x"), Digits(60)>> } }

UpsertVariantsCall(model, variants) ==
    [fn |-> "_upsert_variants", model |-> model, variants |-> variants]
UpsertAliasCall(alias, variant) ==
    [fn |-> "_upsert_alias_from_variant", alias |-> alias, variant |-> variant]

SortCall(variants, pref) == [fn |-> "variants.sort", variants |-> variants, pref |-> pref]
FetchVariantsCall(master_url, model, resp) ==
    [fn |-> "_fetch_variants", master_url |-> master_url, model |-> model, resp |-> resp]
FetchOneCall(model, resp) == [fn |-> "_fetch_one", model |-> model, resp |-> resp]

Calls ==
    { SortCall(vs, pref) : vs \in SeqsUpTo(VariantPool, MaxVariants), pref \in Preferences }
    \cup { FetchVariantsCall(MasterUrl(models[1]), models[1], resp) : resp \in ManifestAnswers }
    \cup { FetchOneCall(models[1], resp) : resp \in PollAnswers(models[1]) }
    \cup { UpsertVariantsCall(m, vs) : m \in Rooms, vs \in SeqsUpTo(NamedPool, MaxVariants) }
    \cup { UpsertAliasCall(m, v) : m \in Rooms, v \in NamedPool }

InitApply ==
    /\ last_status = EmptyDict
    /\ active_streams = EmptyDict
    /\ data = None
    /\ pc = "idle"
    /\ gathered = <<>>
    /\ idx = 1
    /\ results = EmptyDict
    /\ log = <<>>
    /\ expose_variants = TRUE
    /\ known = {}
    /\ entities_by_alias = EmptyDict
    /\ created_count = 0
    /\ listening = FALSE
    /\ last_pass = None
    /\ removing = {}
    /\ call \in {Some(c) : c \in Calls}
    /\ ret = None
    /\ relay = EmptyDict
    /\ steady = EmptyDict
    /\ heap = EmptyDict
    /\ refs = NoRefs
    /\ HostAtStart

\* lines 160-164: the sort of _fetch_variants under the preference of the call
ApplySort ==
    /\ IsNone(ret)
    /\ call[1].fn = "variants.sort"
    /\ ret' = Some(SortVariants(call[1].variants, call[1].pref))
    /\ UNCHANGED <<coordinator, expose_variants, camera, call, host, environment, memory>>

\* lines 133-165
ApplyFetchVariants ==
    /\ IsNone(ret)
    /\ call[1].fn = "_fetch_variants"
    /\ ret' = Some(_fetch_variants(call[1].master_url, call[1].model, call[1].resp,
                                   preferred_quality))
    /\ UNCHANGED <<coordinator, expose_variants, camera, call, host, environment, memory>>

\* lines 104-131
ApplyFetchOne ==
    /\ IsNone(ret)
    /\ call[1].fn = "_fetch_one"
    /\ ret' = Some(_fetch_one(call[1].model, call[1].resp))
    /\ UNCHANGED <<coordinator, expose_variants, camera, call, host, environment, memory>>

\* lines 167-180, the relay accepting every PUT
ApplyUpsertVariants ==
    /\ IsNone(ret)
    /\ call[1].fn = "_upsert_variants"
    /\ ret' = Some(_upsert_variants(call[1].model, call[1].variants,
                                    [i \in 1..Len(call[1].variants) |-> "ok"]))
    /\ UNCHANGED <<coordinator, expose_variants, camera, call, host, environment, memory>>

\* lines 182-189, the relay accepting the PUT
ApplyUpsertAlias ==
    /\ IsNone(ret)
    /\ call[1].fn = "_upsert_alias_from_variant"
    /\ ret' = Some(_upsert_alias_from_variant(call[1].alias, call[1].variant, "ok"))
    /\ UNCHANGED <<coordinator, expose_variants, camera, call, host, environment, memory>>

NextApply ==
    \/ ApplySort
    \/ ApplyFetchVariants
    \/ ApplyFetchOne
    \/ ApplyUpsertVariants
    \/ ApplyUpsertAlias

SpecApply == InitApply /\ [][NextApply]_vars

-----------------------------------------------------------------------------
(* The coordinator against a relay that accepts every call *)

\* the relay after one call it accepted: PUT name, src sets the stream of that
\* name (the last write wins), DELETE name drops it
RelayAfter(streams, c) ==
    IF c.op = "PUT" THEN DictSet(streams, c.name, c.src)
    ELSE [n \in (DOMAIN streams) \ {c.name} |-> streams[n]]

RECURSIVE RelayAfterAll(_, _)
\* the relay after the calls of an iteration, in call order
RelayAfterAll(streams, calls) ==
    IF calls = <<>> THEN streams
    ELSE RelayAfterAll(RelayAfter(streams, Head(calls)), Tail(calls))

\* the names _upsert_variants and line 93 can register for room m
RoomNames(m) == {m} \cup {m \o "_" \o suffix : suffix \in Suffixes}

\* the streams of room m among the relay's
RoomStreams(streams, m) == [n \in (DOMAIN streams) \cap RoomNames(m) |-> streams[n]]

Run(url, manifest, streams, repeated) ==
    [url |-> url, manifest |-> manifest, streams |-> streams, repeated |-> repeated]

\* the history after the iteration for g: a run goes on when the room is handled
\* as live again under the same url and manifest, begins when it is handled as
\* live otherwise, and ends with any other iteration
SteadyAfter(g, mresp, it, streams) ==
    IF IsLive(g.state) /\ it.entry.raised = NoException
    THEN IF /\ g.model \in DOMAIN steady
            /\ steady[g.model].url = g.state.url
            /\ steady[g.model].manifest = mresp.lines
         THEN DictSet(steady, g.model, [steady[g.model] EXCEPT !.repeated = TRUE])
         ELSE DictSet(steady, g.model,
                      Run(g.state.url, mresp.lines, RoomStreams(streams, g.model), FALSE))
    ELSE [m \in (DOMAIN steady) \ {g.model} |-> steady[m]]

\* lines 83-101 for gathered[idx] when the relay answers ok to every call;
\* the history of runs is kept when tracked
IterateWith(tracked) ==
    /\ pc = "loop"
    /\ LET g == gathered[idx]
       IN \E mresp \in ManifestInputs(g) :
             LET it == Iteration(g, mresp, [i \in 1..NeededCalls(g, mresp) |-> "ok"])
                 streams == RelayAfterAll(relay, it.entry.calls)
             IN /\ results' = DictSet(results, g.model, it.state)
                /\ last_status' = DictSet(last_status, g.model, g.state.status)
                /\ active_streams' = it.streams
                /\ log' = Append(log, it.entry)
                /\ relay' = streams
                /\ steady' = IF tracked THEN SteadyAfter(g, mresp, it, streams) ELSE steady
                /\ pc' = IF it.entry.raised # NoException THEN "raise"
                         ELSE IF idx = Len(gathered) THEN "return" ELSE "loop"
                /\ idx' = idx + 1
    /\ UNCHANGED <<data, gathered>>
    /\ UNCHANGED <<expose_variants, camera, application, host, memory>>

IterateReliable == IterateWith(TRUE)

NextRelay == Gather \/ IterateReliable \/ Return \/ Raise

SpecRelay == Init /\ [][NextRelay]_vars

-----------------------------------------------------------------------------
(* The coordinator's objects: which dict, ModelState and list is which *)

\* the most objects alive at a time
MaxObjects == 12

DictObject(items) == [kind |-> "dict", items |-> items]
ListObject(items) == [kind |-> "list", items |-> items]
\* a ModelState object: its fields but variant_stream_names, and the list that
\* field refers to (NoRef for None)
StateObject(fields, names) == [kind |-> "state", fields |-> fields, names |-> names]

\* the reference a newly built object gets
FreeRef(h) ==
    CHOOSE r \in 1..MaxObjects : r \notin DOMAIN h /\ \A q \in 1..(r-1) : q \in DOMAIN h
HasRoom(h, n) == Cardinality(DOMAIN h) + n <= MaxObjects

\* the objects object r refers to
RefsOf(h, r) ==
    IF h[r].kind = "dict" THEN {h[r].items[m] : m \in DOMAIN h[r].items}
    ELSE IF h[r].kind = "state" THEN {h[r].names} \ {NoRef}
    ELSE {}

\* the objects reachable from those of R: a dict, its states, their lists
Reach(h, R) ==
    LET r0 == R \ {NoRef}
        r1 == r0 \cup UNION {RefsOf(h, r) : r \in r0}
    IN r1 \cup UNION {RefsOf(h, r) : r \in r1}

Memory(h, rf) == [heap |-> h, refs |-> rf]

RECURSIVE FirstOccurrences(_, _)
\* the references of seq that are not in seen, each once, in order
FirstOccurrences(seq, seen) ==
    IF seq = <<>> THEN <<>>
    ELSE IF Head(seq) \in seen THEN FirstOccurrences(Tail(seq), seen)
    ELSE <<Head(seq)>> \o FirstOccurrences(Tail(seq), seen \cup {Head(seq)})

\* the states a dict holds, in the order of models, and the lists of states
StatesOf(h, d) ==
    IF d = NoRef THEN <<>>
    ELSE [i \in 1..Len(models) |->
             IF models[i] \in DOMAIN h[d].items THEN h[d].items[models[i]] ELSE NoRef]
ListsOf(h, srs) == [i \in 1..Len(srs) |-> IF srs[i] = NoRef THEN NoRef ELSE h[srs[i]].names]

\* the objects something refers to, in a fixed order of visit
Visit(h, rf) ==
    FirstOccurrences(
        <<rf.data>> \o StatesOf(h, rf.data) \o ListsOf(h, StatesOf(h, rf.data))
            \o <<rf.results>> \o rf.gathered \o ListsOf(h, rf.gathered)
            \o [i \in 1..Len(models) |->
                   IF models[i] \in DOMAIN rf.streams THEN rf.streams[models[i]] ELSE NoRef],
        {NoRef})

\* the heap without the objects nothing refers to any more, the others
\* numbered in the order of visit (which number an object has means nothing)
Collect(h, rf) ==
    LET order == Visit(h, rf)
        new(r) == IF r = NoRef THEN NoRef ELSE CHOOSE i \in 1..Len(order) : order[i] = r
        moved(obj) ==
            IF obj.kind = "dict"
            THEN [obj EXCEPT !.items = [m \in DOMAIN obj.items |-> new(obj.items[m])]]
            ELSE IF obj.kind = "state" THEN [obj EXCEPT !.names = new(obj.names)]
            ELSE obj
    IN Memory([i \in 1..Len(order) |-> moved(h[order[i]])],
              [results |-> new(rf.results), data |-> new(rf.data),
               gathered |-> [i \in 1..Len(rf.gathered) |-> new(rf.gathered[i])],
               streams |-> [m \in DOMAIN rf.streams |-> new(rf.streams[m])]])

RECURSIVE NewStates(_, _, _)
\* line 125 in every poller: a new ModelState object per gathered pair, from i on
NewStates(h, gs, i) ==
    IF i > Len(gs) THEN Memory(h, <<>>)
    ELSE LET r == FreeRef(h)
             rest == NewStates(DictSet(h, r, StateObject(gs[i].state, NoRef)), gs, i + 1)
         IN [rest EXCEPT !.refs = <<r>> \o @]

\* line 83: results[model] = state
SetItem(h, d, m, sr) == [h EXCEPT ![d].items = DictSet(@, m, sr)]

\* lines 87-96 on the state object sr: the variants are stored in it, the list
\* _upsert_variants built (to which line 95 appends the room's name) becomes
\* its variant_stream_names and, with variants, the room's recorded list
LiveObjects(h, rf, m, sr, it) ==
    IF it.entry.raised # NoException THEN Memory(h, rf)
    ELSE LET l == FreeRef(h)
             h1 == DictSet(h, l, ListObject(it.state.variant_stream_names[1]))
             h2 == [h1 EXCEPT ![sr].fields.variants = it.state.variants, ![sr].names = l]
         IN Memory(h2, IF it.entry.variants = <<>> THEN rf
                       ELSE [rf EXCEPT !.streams = DictSet(@, m, l)])

\* line 225 as a clear() of the recorded list
ClearRecordedList(h, rf, m) ==
    IF m \in DOMAIN rf.streams
    THEN Memory([h EXCEPT ![rf.streams[m]].items = <<>>], rf)
    ELSE LET l == FreeRef(h)
         IN Memory(DictSet(h, l, ListObject(<<>>)), [rf EXCEPT !.streams = DictSet(@, m, l)])

\* line 225: self._active_streams[model] = [], a new list
EmptyRecordedList(h, rf, m) ==
    LET l == FreeRef(h)
    IN Memory(DictSet(h, l, ListObject(<<>>)), [rf EXCEPT !.streams = DictSet(@, m, l)])

\* lines 99-101 on the state object sr
CleanupObjects(h, rf, m, sr) ==
    LET cl == EmptyRecordedList(h, rf, m)
    IN Memory([cl.heap EXCEPT ![sr].fields.variants = None, ![sr].names = NoRef], cl.refs)

\* lines 80-82 with the objects they build
GatherObjects ==
    /\ pc = "idle"
    /\ HasRoom(heap, Len(models) + 1)
    /\ \E resp \in [Rooms -> UNION {PollResponses(m) : m \in Rooms}] :
          /\ \A m \in Rooms : resp[m] \in PollResponses(m)
          /\ gathered' = [i \in 1..Len(models) |-> _fetch_one(models[i], resp[models[i]])]
    /\ LET d == FreeRef(heap)
           new == NewStates(DictSet(heap, d, DictObject(EmptyDict)), gathered', 1)
           rf == [refs EXCEPT !.results = d, !.gathered = new.refs]
           kept == Collect(new.heap, rf)
       IN /\ heap' = kept.heap
          /\ refs' = kept.refs
    /\ pc' = IF \E i \in 1..Len(models) : gathered'[i].raised # NoException THEN "raise"
             ELSE IF Len(models) = 0 THEN "return" ELSE "loop"
    /\ idx' = 1
    /\ results' = EmptyDict
    /\ log' = <<>>
    /\ UNCHANGED <<last_status, active_streams, data>>
    /\ UNCHANGED <<expose_variants, camera, application, host, environment>>

\* lines 83-101 for gathered[idx] with the objects they build and change
\* (the relay's answers change no object: every call is taken as accepted)
IterateObjects ==
    /\ pc = "loop"
    /\ HasRoom(heap, 1)
    /\ LET g == gathered[idx]
           sr == refs.gathered[idx]
       IN \E mresp \in ManifestInputs(g) :
          \E it \in {Iteration(g, mresp, [i \in 1..NeededCalls(g, mresp) |-> "ok"])} :
          \E h1 \in {SetItem(heap, refs.results, g.model, sr)} :
          \E after \in {IF IsLive(g.state) THEN LiveObjects(h1, refs, g.model, sr, it)
                         ELSE IF LeftPublic(it.entry.prev, g.state)
                         THEN CleanupObjects(h1, refs, g.model, sr)
                         ELSE Memory(h1, refs)} :
          \E kept \in {Collect(after.heap, after.refs)} :
                /\ results' = DictSet(results, g.model, it.state)
                /\ last_status' = DictSet(last_status, g.model, g.state.status)
                /\ active_streams' = it.streams
                /\ log' = Append(log, it.entry)
                /\ heap' = kept.heap
                /\ refs' = kept.refs
                /\ pc' = IF it.entry.raised # NoException THEN "raise"
                         ELSE IF idx = Len(gathered) THEN "return" ELSE "loop"
                /\ idx' = idx + 1
    /\ UNCHANGED <<data, gathered>>
    /\ UNCHANGED <<expose_variants, camera, application, host, environment>>

\* line 102: the results dict becomes coordinator.data
ReturnObjects ==
    /\ pc = "return"
    /\ data' = Some(results)
    /\ LET rf == [refs EXCEPT !.data = refs.results, !.results = NoRef, !.gathered = <<>>]
           kept == Collect(heap, rf)
       IN heap' = kept.heap /\ refs' = kept.refs
    /\ pc' = "idle"
    /\ gathered' = <<>>
    /\ idx' = 1
    /\ results' = EmptyDict
    /\ log' = <<>>
    /\ UNCHANGED <<last_status, active_streams>>
    /\ UNCHANGED <<expose_variants, camera, application, host, environment>>

\* an exception left _async_update_data: its results dict is dropped
RaiseObjects ==
    /\ pc = "raise"
    /\ LET rf == [refs EXCEPT !.results = NoRef, !.gathered = <<>>]
           kept == Collect(heap, rf)
       IN heap' = kept.heap /\ refs' = kept.refs
    /\ pc' = "idle"
    /\ gathered' = <<>>
    /\ idx' = 1
    /\ results' = EmptyDict
    /\ log' = <<>>
    /\ UNCHANGED <<last_status, active_streams, data>>
    /\ UNCHANGED <<expose_variants, camera, application, host, environment>>

NextObjects == GatherObjects \/ IterateObjects \/ ReturnObjects \/ RaiseObjects

SpecObjects == Init /\ [][NextObjects]_vars

\* the value of the ModelState object r, and of the dict d of such objects
StateValue(h, r) ==
    [h[r].fields EXCEPT !.variant_stream_names =
        IF h[r].names = NoRef THEN None ELSE Some(h[h[r].names].items)]
CollectionValue(h, d) == [m \in DOMAIN h[d].items |-> StateValue(h, h[d].items[m])]

-----------------------------------------------------------------------------
(* Config entries: __init__.py async_setup_entry and async_unload_entry.     *)
(* The coordinator's session is set by its async_setup (coordinator.py lines *)
(* 64-67) alone, which neither __init__.py nor a platform calls.             *)

\* coordinator.py lines 41-61: the constructor leaves _session None
NewCoordinator == [session |-> None]

\* file_manager.py lines 22-47: the constructor leaves _running False
NewFileManager == [running |-> FALSE]

\* file_manager.py lines 59-73
FileManagerStarted(fm) == [fm EXCEPT !.running = TRUE]

\* file_manager.py lines 81-91
FileManagerStopped(fm) == [fm EXCEPT !.running = FALSE]

\* coordinator.py lines 227-232: self._session.closed is read outside the try
async_close(c) ==
    IF IsNone(c.session)
    THEN [raised |-> "AttributeError", coord |-> c]
    ELSE [raised |-> NoException, coord |-> [c EXCEPT !.session = Some("closed")]]

\* __init__.py lines 70-81
EntryData(c, fm) ==
    [coordinator |-> c, file_manager |-> fm, models |-> models,
     expose_variants |-> expose_variants]

\* lines 31-55: the options are read, the coordinator is constructed and its
\* first refresh awaited
SetupEntry(e) ==
    /\ entries[e].pc \in {"not_loaded", "unloaded"}
    /\ entries' = [entries EXCEPT ![e] =
           [NotLoaded EXCEPT !.pc = "first_refresh", !.coord = Some(NewCoordinator)]]
    /\ UNCHANGED hass_data
    /\ UNCHANGED <<coordinator, expose_variants, camera, application, recording, storage,
                   refreshes,
                 environment, memory>>

\* coordinator.py lines 112-124 on the coordinator's session: with _session
\* None the attribute access self._session.post raises AttributeError inside
\* the try, before any request is sent, and `except Exception` logs it
SessionPost(c, resp) ==
    IF IsNone(c.session) THEN Failed("AttributeError") ELSE resp

\* coordinator.py lines 81-82 of the entry's coordinator: the poller of every
\* room runs on the coordinator's session
PollAll(c, resp) ==
    [i \in 1..Len(models) |-> _fetch_one(models[i], SessionPost(c, resp[models[i]]))]

\* lines 55-68: the first refresh ended; the host raises ConfigEntryNotReady
\* when the refresh raised, and so does the setup
FirstRefreshDone(e) ==
    /\ entries[e].pc = "first_refresh"
    /\ \E resp \in [Rooms -> UNION {PollResponses(m) : m \in Rooms}] :
          /\ \A m \in Rooms : resp[m] \in PollResponses(m)
          /\ \E polled \in {PollAll(entries[e].coord[1], resp)} :
                entries' = [entries EXCEPT ![e] =
                    IF \A i \in 1..Len(polled) : polled[i].raised = NoException
                    THEN [@ EXCEPT !.pc = "file_manager_start",
                                   !.polled = Some([i \in 1..Len(polled) |->
                                                       polled[i].state.status]),
                                   !.file_manager = Some(NewFileManager)]
                    ELSE [@ EXCEPT !.pc = "setup_raised",
                                   !.result = Raised("ConfigEntryNotReady")]]
    /\ UNCHANGED hass_data
    /\ UNCHANGED <<coordinator, expose_variants, camera, application, recording, storage,
                   refreshes,
                 environment, memory>>

\* lines 68-83: the file manager started (or its directory could not be
\* made); the entry's data is stored and the platforms are forwarded
FileManagerStartDone(e) ==
    /\ entries[e].pc = "file_manager_start"
    /\ \E outcome \in {"ok", "OSError"} :
           IF outcome = "ok"
           THEN LET fm == FileManagerStarted(entries[e].file_manager[1])
                IN /\ entries' = [entries EXCEPT ![e] =
                          [@ EXCEPT !.pc = "forward_entry_setups",
                                    !.file_manager = Some(fm)]]
                   /\ hass_data' = DictSet(hass_data, e, EntryData(entries[e].coord[1], fm))
           ELSE /\ entries' = [entries EXCEPT ![e] =
                       [@ EXCEPT !.pc = "setup_raised", !.result = Raised(outcome)]]
                /\ UNCHANGED hass_data
    /\ UNCHANGED <<coordinator, expose_variants, camera, application, recording, storage,
                   refreshes,
                 environment, memory>>

\* lines 83-87
ForwardDone(e) ==
    /\ entries[e].pc = "forward_entry_setups"
    /\ entries' = [entries EXCEPT ![e] = [@ EXCEPT !.pc = "loaded", !.result = Returned(TRUE)]]
    /\ UNCHANGED hass_data
    /\ UNCHANGED <<coordinator, expose_variants, camera, application, recording, storage,
                   refreshes,
                 environment, memory>>

\* lines 89-90: the platforms' unload is awaited
UnloadEntry(e) ==
    /\ entries[e].pc = "loaded"
    /\ entries' = [entries EXCEPT ![e] =
           [@ EXCEPT !.pc = "unload_platforms", !.result = None]]
    /\ UNCHANGED hass_data
    /\ UNCHANGED <<coordinator, expose_variants, camera, application, recording, storage,
                   refreshes,
                 environment, memory>>

\* lines 90-97: the host answered unload_ok; the data is popped, the
\* coordinator closed and the file manager stopped
UnloadPlatformsDone(e) ==
    /\ entries[e].pc = "unload_platforms"
    /\ \E unload_ok \in BOOLEAN :
           LET popped == DictGet(hass_data, e, EmptyDict)
               closed == async_close(popped.coordinator)
           IN /\ hass_data' = [k \in DOMAIN hass_data \ {e} |-> hass_data[k]]
              /\ entries' = [entries EXCEPT ![e] =
                     IF e \notin DOMAIN hass_data
                     THEN [@ EXCEPT !.pc = "unloaded", !.result = Returned(unload_ok),
                                    !.unload_ok = Some(unload_ok)]
                     ELSE IF closed.raised # NoException
                     THEN [@ EXCEPT !.pc = "unload_raised",
                                    !.result = Raised(closed.raised),
                                    !.unload_ok = Some(unload_ok)]
                     ELSE [@ EXCEPT !.pc = "unloaded",
                                    !.result = Returned(unload_ok),
                                    !.unload_ok = Some(unload_ok),
                                    !.coord = Some(closed.coord),
                                    !.file_manager =
                                        Some(FileManagerStopped(popped.file_manager))]]
    /\ UNCHANGED <<coordinator, expose_variants, camera, application, recording, storage,
                   refreshes,
                 environment, memory>>

\* the host sets the entry up again after a failure
Retry(e) ==
    /\ entries[e].pc \in {"setup_raised", "unload_raised"}
    /\ entries' = [entries EXCEPT ![e] = [@ EXCEPT !.pc = "not_loaded", !.result = None,
                                             !.unload_ok = None]]
    /\ UNCHANGED hass_data
    /\ UNCHANGED <<coordinator, expose_variants, camera, application, recording, storage,
                   refreshes,
                 environment, memory>>

NextEntry ==
    \/ \E e \in EntryIds : SetupEntry(e)
    \/ \E e \in EntryIds : FirstRefreshDone(e)
    \/ \E e \in EntryIds : FileManagerStartDone(e)
    \/ \E e \in EntryIds : ForwardDone(e)
    \/ \E e \in EntryIds : UnloadEntry(e)
    \/ \E e \in EntryIds : UnloadPlatformsDone(e)
    \/ \E e \in EntryIds : Retry(e)

SpecEntry == Init /\ [][NextEntry]_vars

-----------------------------------------------------------------------------
(* The recording switch: switch.py async_update, async_turn_on and           *)
(* async_turn_off on one ChaturbateRecordSwitch and its FFmpegRecorder. A    *)
(* coroutine runs alone from one suspension to the next; it is suspended     *)
(* while a subprocess is created, while the stopped subprocess is waited     *)
(* for, and while the store saves.                                           *)

MaxProcesses == 3

\* is_running without the test of returncode
HoldsProcess(r) == ~IsNone(r.process)

\* recorder.py lines 68-69
is_running(r) == ~IsNone(r.process) /\ procs[r.process[1]].state = "alive"

Alive == {p \in 1..Len(procs) : procs[p].state = "alive"}

\* the subprocesses being created by suspended recorder.start calls
Starting == {t \in TaskIds : tasks[t].pc = "start"}

\* recorder.py lines 17-21: the file is named by the clock's reading, which
\* is taken to advance with every subprocess created
_out_path(ps) == Some(Len(ps) + 1)

\* start that takes a new file and a new subprocess whatever it holds
StartAnew(r, ps) ==
    [spawn |-> TRUE, ret |-> _out_path(ps), rec |-> [r EXCEPT !.current_file = _out_path(ps)]]

\* recorder.py lines 24-30, start up to its await: with a running process
\* the current file is returned (named first when there is none); otherwise
\* current_file is the new outfile and a subprocess is to be created
StartBegin(r, ps) ==
    IF is_running(r)
    THEN LET file == IF IsNone(r.current_file) THEN _out_path(ps) ELSE r.current_file
         IN [spawn |-> FALSE, ret |-> file, rec |-> [r EXCEPT !.current_file = file]]
    ELSE [spawn |-> TRUE, ret |-> _out_path(ps),
          rec |-> [r EXCEPT !.current_file = _out_path(ps)]]

\* recorder.py lines 31-35: the created subprocess is bound to the recorder
Spawned(r, ps) ==
    [rec |-> [r EXCEPT !.process = Some(Len(ps) + 1)],
     procs |-> Append(ps, Process("alive", <<>>))]

\* a signal reaches the subprocess p when p has not ended (ProcessLookupError
\* is passed over otherwise, recorder.py lines 44-45 and 51-52); a signal
\* sent again right after itself is noted once
Signalled(ps, p, sig) ==
    IF ps[p].state = "alive" /\ (ps[p].signals = <<>> \/ ps[p].signals[Len(ps[p].signals)] # sig)
    THEN [ps EXCEPT ![p] = [@ EXCEPT !.signals = Append(@, sig)]]
    ELSE ps

\* stop that kills at once
StopByKill(r, ps) ==
    IF IsNone(r.process) THEN [next |-> "return", procs |-> ps]
    ELSE IF ps[r.process[1]].state # "alive" THEN [next |-> "clear", procs |-> ps]
    ELSE [next |-> "wait", procs |-> Signalled(ps, r.process[1], "SIGKILL")]

\* recorder.py lines 39-47, stop up to its await: nothing is held (return),
\* the held process has ended (lines 53-54 follow at once), or the process
\* is sent SIGINT and waited for
StopBegin(r, ps) ==
    IF IsNone(r.process) THEN [next |-> "return", procs |-> ps]
    ELSE IF ps[r.process[1]].state # "alive" THEN [next |-> "clear", procs |-> ps]
    ELSE [next |-> "wait", procs |-> Signalled(ps, r.process[1], "SIGINT")]

\* recorder.py lines 47-54 once the wait for the subprocess p is over: p has
\* ended, or ten seconds passed and self.process, as it is then, is killed
\* (AttributeError when it is None)
StopEnd(r, ps, p) ==
    IF ps[p].state = "exited"
    THEN [raised |-> NoException, timed_out |-> FALSE, rec |-> NewRecorder, procs |-> ps]
    ELSE IF IsNone(r.process)
    THEN [raised |-> "AttributeError", timed_out |-> TRUE, rec |-> r, procs |-> ps]
    ELSE LET killed == Signalled(ps, r.process[1], "SIGKILL")
         IN [raised |-> NoException, timed_out |-> TRUE, rec |-> NewRecorder,
             procs |-> [killed EXCEPT ![r.process[1]] = [@ EXCEPT !.state = "exited"]]]

\* no other coroutine of the switch than t is under way
Alone(t) == \A u \in TaskIds \ {t} : tasks[u].pc = "idle"

\* a coroutine of the switch suspended at pc, waiting for the subprocess
\* waited when in stop. History, kept while no other coroutine of the switch
\* has run since its async_update began (alone): live is what the update
\* read at line 147, running what it read at line 150, spawned the
\* subprocess its start created
Task(at, alone, live, running, waited) ==
    [pc |-> at, alone |-> alone, live |-> alone /\ live, running |-> alone /\ running,
     spawned |-> None, waited |-> waited]

\* the coroutines under way have another one running in between from now on
Interleaved(ts) ==
    [u \in TaskIds |->
        IF ts[u].pc = "idle" THEN ts[u]
        ELSE [ts[u] EXCEPT !.alone = FALSE, !.live = FALSE, !.running = FALSE,
                           !.spawned = None]]

\* what an async_update that has just returned without another coroutine in
\* between had read and done
Finished(t) ==
    IF t.alone
    THEN Some([live |-> t.live, running |-> t.running, spawned |-> t.spawned,
               stopped |-> t.waited])
    ELSE None

\* switch.py lines 146-189 up to the first suspension, for the live state read
\* at line 147: recorder.start (lines 23-31) suspends creating the
\* subprocess; recorder.stop (lines 38-47) signals the process and suspends
\* waiting for it; otherwise the update ends
RunUpdate(t, live) ==
    LET running == is_running(rec)
        others == Interleaved(tasks)
    IN IF switch.armed /\ live /\ ~running
       THEN /\ Len(procs) + Cardinality(Starting) < MaxProcesses
            /\ rec' = StartBegin(rec, procs).rec
            /\ tasks' = [others EXCEPT ![t] = Task("start", Alone(t), live, running, None)]
            /\ finished' = None
            /\ UNCHANGED <<procs>>
       ELSE IF (~switch.armed \/ ~live) /\ running
       THEN /\ procs' = StopBegin(rec, procs).procs
            /\ tasks' = [others EXCEPT ![t] =
                             Task("stop", Alone(t), live, running, rec.process)]
            /\ finished' = None
            /\ UNCHANGED <<rec>>
       ELSE /\ tasks' = [others EXCEPT ![t] = Idle]
            /\ finished' = Finished(Task("idle", Alone(t), live, running, None))
            /\ UNCHANGED <<rec, procs>>

\* the platform polls the switch: lines 146-189
async_update ==
    /\ tasks["async_update"].pc = "idle"
    /\ \E live \in BOOLEAN : RunUpdate("async_update", live)
    /\ UNCHANGED <<switch, client>>
    /\ UNCHANGED <<coordinator, expose_variants, camera, application, config_entries,
                   storage, refreshes, environment, memory>>

\* lines 234-236
async_turn_on ==
    /\ tasks["async_turn_on"].pc = "idle"
    /\ switch' = [switch EXCEPT !.armed = TRUE]
    /\ tasks' = [Interleaved(tasks) EXCEPT !["async_turn_on"] =
                     [Idle EXCEPT !.pc = "save_armed"]]
    /\ finished' = None
    /\ UNCHANGED <<rec, procs, client>>
    /\ UNCHANGED <<coordinator, expose_variants, camera, application, config_entries,
                   storage, refreshes, environment, memory>>

\* lines 240-242
async_turn_off ==
    /\ tasks["async_turn_off"].pc = "idle"
    /\ switch' = [switch EXCEPT !.armed = FALSE]
    /\ tasks' = [Interleaved(tasks) EXCEPT !["async_turn_off"] =
                     [Idle EXCEPT !.pc = "save_armed"]]
    /\ finished' = None
    /\ UNCHANGED <<rec, procs, client>>
    /\ UNCHANGED <<coordinator, expose_variants, camera, application, config_entries,
                   storage, refreshes, environment, memory>>

\* lines 237-238 and 243-244: the store saved, the service call runs async_update
ArmedSaved ==
    \E t \in {"async_turn_on", "async_turn_off"} :
        /\ tasks[t].pc = "save_armed"
        /\ \E live \in BOOLEAN : RunUpdate(t, live)
        /\ UNCHANGED <<switch, client>>
        /\ UNCHANGED <<coordinator, expose_variants, camera, application, config_entries,
                       storage, refreshes, environment, memory>>

\* recorder.py lines 31-36, switch.py lines 163-167 and 192-193: the
\* subprocess exists, start binds it to the recorder, the update notes the
\* stream's start and saves
ProcessCreated ==
    \E t \in TaskIds :
        /\ tasks[t].pc = "start"
        /\ procs' = Spawned(rec, procs).procs
        /\ rec' = Spawned(rec, procs).rec
        /\ switch' = [switch EXCEPT !.current_stream_start = TRUE]
        /\ tasks' = [tasks EXCEPT ![t] =
               [@ EXCEPT !.pc = "save",
                         !.spawned = IF tasks[t].alone THEN Some(Len(procs) + 1)
                                      ELSE None]]
        /\ finished' = None
        /\ UNCHANGED client
        /\ UNCHANGED <<coordinator, expose_variants, camera, application, config_entries,
                       storage, refreshes, environment, memory>>

\* what the update does once stop has returned: switch.py lines 174-193
AfterStop(t) ==
    /\ switch' = [switch EXCEPT !.current_stream_start = FALSE]
    /\ IF switch.current_stream_start
       THEN /\ tasks' = [tasks EXCEPT ![t] = [@ EXCEPT !.pc = "save"]]
            /\ finished' = None
       ELSE /\ tasks' = [tasks EXCEPT ![t] = Idle]
            /\ finished' = Finished(tasks[t])

\* recorder.py lines 47-54: the wait ended, with the process gone or, after
\* ten seconds, with self.process killed; an AttributeError ends the update
StopWaitDone ==
    \E t \in TaskIds :
        /\ tasks[t].pc = "stop"
        /\ \E end \in {StopEnd(rec, procs, tasks[t].waited[1])} :
              /\ rec' = end.rec
              /\ procs' = end.procs
              /\ IF end.raised = NoException
                 THEN AfterStop(t)
                 ELSE /\ tasks' = [tasks EXCEPT ![t] = Idle]
                      /\ finished' = None
                      /\ UNCHANGED switch
        /\ UNCHANGED client
        /\ UNCHANGED <<coordinator, expose_variants, camera, application, config_entries,
                       storage, refreshes, environment, memory>>

\* switch.py lines 193-211: the store saved, the update ends
StateSaved ==
    \E t \in TaskIds :
        /\ tasks[t].pc = "save"
        /\ tasks' = [tasks EXCEPT ![t] = Idle]
        /\ finished' = Finished(tasks[t])
        /\ UNCHANGED <<switch, rec, procs, client>>
        /\ UNCHANGED <<coordinator, expose_variants, camera, application, config_entries,
                       storage, refreshes, environment, memory>>

\* a subprocess ends, by itself or on the signal of recorder.py line 43
ProcessExits ==
    \E p \in Alive :
        /\ procs' = [procs EXCEPT ![p] = [@ EXCEPT !.state = "exited"]]
        /\ finished' = None
        /\ UNCHANGED <<switch, rec, tasks, client>>
        /\ UNCHANGED <<coordinator, expose_variants, camera, application, config_entries,
                       storage, refreshes, environment, memory>>

NextSwitch ==
    \/ async_update
    \/ async_turn_on
    \/ async_turn_off
    \/ ArmedSaved
    \/ ProcessCreated
    \/ StopWaitDone
    \/ StateSaved
    \/ ProcessExits

SpecSwitch == Init /\ [][NextSwitch]_vars

-----------------------------------------------------------------------------
(* FFmpegRecorder on its own: one caller awaits start() and stop() one after *)
(* the other (as __aenter__ and __aexit__ do, recorder.py lines 56-66),      *)
(* while the subprocesses end when they will.                                *)

\* the call under way or the last one completed: the recorder and the
\* signals sent when it began, and the two calls made before it
Call(op, prev) ==
    [op |-> op, before |-> rec, running |-> is_running(rec),
     signals |-> [p \in 1..Len(procs) |-> procs[p].signals],
     prev |-> prev, ret |-> None, timed_out |-> FALSE, raised |-> NoException]

PrevOp ==
    IF IsNone(client.call) THEN <<>>
    ELSE LET c == client.call[1]
             all == Append(c.prev, [op |-> c.op, running |-> c.running])
         IN IF Len(all) > 2 THEN Tail(all) ELSE all

\* recorder.py lines 23-30: start() is called
start ==
    /\ client.pc = "idle"
    /\ \E st \in {StartBegin(rec, procs)} :
          /\ st.spawn => Len(procs) < MaxProcesses
          /\ rec' = st.rec
          /\ client' = [pc |-> IF st.spawn THEN "start" ELSE "idle",
                        call |-> Some([Call("start", PrevOp) EXCEPT !.ret = st.ret])]
    /\ UNCHANGED <<switch, procs, tasks, finished>>
    /\ UNCHANGED <<coordinator, expose_variants, camera, application, config_entries,
                   storage, refreshes, environment, memory>>

\* recorder.py lines 31-36: the subprocess exists, start() returns outfile
StartReturns ==
    /\ client.pc = "start"
    /\ rec' = Spawned(rec, procs).rec
    /\ procs' = Spawned(rec, procs).procs
    /\ client' = [client EXCEPT !.pc = "idle"]
    /\ UNCHANGED <<switch, tasks, finished>>
    /\ UNCHANGED <<coordinator, expose_variants, camera, application, config_entries,
                   storage, refreshes, environment, memory>>

\* recorder.py lines 38-47, and 53-54 when there is nothing to wait for:
\* stop() is called
stop ==
    /\ client.pc = "idle"
    /\ \E sb \in {StopBegin(rec, procs)} :
          /\ procs' = sb.procs
          /\ rec' = IF sb.next = "clear" THEN NewRecorder ELSE rec
          /\ client' = [pc |-> IF sb.next = "wait" THEN "stop" ELSE "idle",
                        call |-> Some(Call("stop", PrevOp))]
    /\ UNCHANGED <<switch, tasks, finished>>
    /\ UNCHANGED <<coordinator, expose_variants, camera, application, config_entries,
                   storage, refreshes, environment, memory>>

\* recorder.py lines 47-54: the wait of stop() is over
StopReturns ==
    /\ client.pc = "stop"
    /\ \E end \in {StopEnd(rec, procs, client.call[1].before.process[1])} :
          /\ rec' = end.rec
          /\ procs' = end.procs
          /\ client' = [pc |-> "idle",
                        call |-> Some([client.call[1] EXCEPT !.timed_out = end.timed_out,
                                                             !.raised = end.raised])]
    /\ UNCHANGED <<switch, tasks, finished>>
    /\ UNCHANGED <<coordinator, expose_variants, camera, application, config_entries,
                   storage, refreshes, environment, memory>>

NextRecorder ==
    \/ start
    \/ StartReturns
    \/ stop
    \/ StopReturns
    \/ ProcessExits

SpecRecorder == Init /\ [][NextRecorder]_vars

-----------------------------------------------------------------------------
(***************************************************************************)
(* File manager: file_manager.py.  The manager's _run task is followed     *)
(* from one suspension to the next: the reachability check, the move of    *)
(* one queued recording in the executor, the sleep between two passes.     *)
(* queue_file_move, async_stop and the loss of a local file happen while   *)
(* the task is suspended.  The disk-space check and the cleanup of old     *)
(* files are left out, except that a local file may go at any time.        *)
(***************************************************************************)

\* the FileManagers constructed in a behaviour
MaxManagers == 2

\* file_manager.py line 177: the failed attempts after which a move is given up
GiveUpAfter == 5

\* lines 22-47: FileManager(..., remote_path, enable_auto_move, ...); line 37
FileManager(remote, enable_auto_move, serial) ==
    [NoFileManager EXCEPT !.pc = "constructed", !.serial = serial, !.remote = remote,
                          !.enable_auto_move = enable_auto_move /\ remote]

\* lines 285-294: what _save_state writes
Saved(m) == [pending_moves |-> m.pending_moves, pending_files |-> m.pending_files]

\* lines 111-116: the entry queue_file_move appends; tried is history: the
\* attempts to move the file that ended, moved or failed
MoveInfo(f) == [source |-> f, attempts |-> 0, tried |-> 0]

\* line 146: source.exists()
Exists(fs, f) == fs[f] \in {"recorded", "local"}

\* lines 189-191 with lines 146-148: the loop of _process_pending_moves from the
\* i-th entry on, as far as it runs without suspending: an entry whose source
\* no longer exists is completed at once, the first other one is moved in the
\* executor
RECURSIVE Advance(_, _, _, _)
Advance(pending, i, completed, fs) ==
    IF i > Len(pending) THEN [i |-> i, completed |-> completed]
    ELSE IF ~Exists(fs, pending[i].source)
         THEN Advance(pending, i + 1, Append(completed, i), fs)
         ELSE [i |-> i, completed |-> completed]

\* list.pop(i)
Pop(s, i) == SubSeq(s, 1, i - 1) \o SubSeq(s, i + 1, Len(s))

RECURSIVE PopAll(_, _)
PopAll(s, order) ==
    IF order = <<>> THEN s ELSE PopAll(Pop(s, Head(order)), Tail(order))

Reversed(s) == [k \in 1..Len(s) |-> s[Len(s) + 1 - k]]

\* the completed entries popped from the first one on, so that every later index
\* is one too high
RemoveAscending(pending, completed) == PopAll(pending, completed)

\* lines 194-195: for i in reversed(completed): self._pending_moves.pop(i)
RemoveCompleted(pending, completed) == PopAll(pending, Reversed(completed))

\* lines 193-200: the end of a pass; removed is the history of the entries it
\* took from the queue, each with where its file was then
EndPass(m, completed, fs) ==
    LET left == RemoveCompleted(m.pending_moves, completed)
        gone(e) == \A k \in 1..Len(left) : left[k] # e
        taken == SelectSeq(m.pending_moves, gone)
    IN [m EXCEPT !.pending_moves = left,
                 !.pending_files = Len(left),
                 !.pc = "sleep", !.i = 0, !.completed = <<>>,
                 !.removed = [k \in 1..Len(taken) |->
                                [source |-> taken[k].source,
                                 attempts |-> taken[k].attempts,
                                 tried |-> taken[k].tried,
                                 file |-> fs[taken[k].source]]]]

\* lines 189-200 from the i-th entry on, up to the next suspension
Continue(m, i, completed, fs) ==
    LET a == Advance(m.pending_moves, i, completed, fs)
    IN IF a.i > Len(m.pending_moves)
       THEN EndPass(m, a.completed, fs)
       ELSE [m EXCEPT !.pc = "moving", !.i = a.i, !.completed = a.completed]

\* line 199: the pass that ends saves the state when it completed an entry
PassSaves(m, i, completed, fs) ==
    LET a == Advance(m.pending_moves, i, completed, fs)
    IN a.i > Len(m.pending_moves) /\ a.completed # <<>>

\* lines 166-172: a failed attempt counted on the i-th entry
Failed1(m) ==
    [m EXCEPT !.pending_moves[m.i].attempts = m.pending_moves[m.i].attempts + 1]

\* history: an attempt on the i-th entry has ended
Tried(m) ==
    [m EXCEPT !.pending_moves[m.i].tried = m.pending_moves[m.i].tried + 1]

\* __init__.py lines 58-67: a setup constructs the entry's FileManager
NewManager(remote, enable_auto_move) ==
    /\ mgr.pc \in {"none", "stopped"}
    /\ mgr.serial < MaxManagers
    /\ mgr' = FileManager(remote, enable_auto_move, mgr.serial + 1)
    /\ UNCHANGED <<store, disk, moves>>
    /\ UNCHANGED <<coordinator, expose_variants, camera, application, config_entries,
                   recording, refreshes, environment, memory>>

\* lines 59-79: async_start restores the pending moves and the statistics, and
\* creates the _run task
async_start ==
    /\ mgr.pc = "constructed"
    /\ mgr' = IF IsNone(store)
              THEN [mgr EXCEPT !.pc = "check", !.running = TRUE]
              ELSE [mgr EXCEPT !.pc = "check", !.running = TRUE,
                               !.pending_moves = store[1].pending_moves,
                               !.pending_files = store[1].pending_files]
    /\ UNCHANGED <<store, disk, moves>>
    /\ UNCHANGED <<coordinator, expose_variants, camera, application, config_entries,
                   recording, refreshes, environment, memory>>

\* lines 106-120: queue_file_move for a recording that has ended
queue_file_move(f) ==
    /\ mgr.pc # "none"
    /\ disk[f] = "recorded"
    /\ disk' = [disk EXCEPT ![f] = "local"]
    /\ IF ~mgr.enable_auto_move \/ ~mgr.remote
       THEN UNCHANGED <<mgr, store>>
       ELSE \E m \in {[mgr EXCEPT !.pending_moves = Append(@, MoveInfo(f)),
                                  !.pending_files = Len(mgr.pending_moves) + 1]} :
                /\ mgr' = m
                /\ store' = Some(Saved(m))
    /\ UNCHANGED moves
    /\ UNCHANGED <<coordinator, expose_variants, camera, application, config_entries,
                   recording, refreshes, environment, memory>>

\* lines 248-265 and 283, 122-139, 183-191: the task wakes, _check_nas_available
\* answers, and a pass begins when the remote path is reachable and a move is
\* pending
NasChecked(reachable) ==
    /\ mgr.pc \in {"check", "sleep"}
    /\ \E m \in {[mgr EXCEPT !.nas_online = reachable /\ mgr.remote]} :
          IF m.nas_online /\ m.pending_moves # <<>>
          THEN /\ mgr' = Continue(m, 1, <<>>, disk)
               /\ store' = IF PassSaves(m, 1, <<>>, disk)
                           THEN Some(Saved(Continue(m, 1, <<>>, disk)))
                           ELSE store
          ELSE /\ mgr' = [m EXCEPT !.pc = "sleep"]
               /\ UNCHANGED store
    /\ UNCHANGED <<disk, moves>>
    /\ UNCHANGED <<coordinator, expose_variants, camera, application, config_entries,
                   recording, refreshes, environment, memory>>

\* lines 150-181 and 189-200: shutil.move ends for the i-th entry, moved or
\* failed, and the pass goes on to its next suspension
MoveDone(ok) ==
    /\ mgr.pc = "moving"
    /\ \E f \in {mgr.pending_moves[mgr.i].source} :
          /\ ok => Exists(disk, f)
          /\ disk' = IF ok THEN [disk EXCEPT ![f] = "remote"] ELSE disk
          /\ moves' = IF ok
                      THEN moves \cup {[source |-> f,
                                        enable_auto_move |-> mgr.enable_auto_move]}
                      ELSE moves
          /\ \E m \in {IF ok THEN Tried(mgr) ELSE Failed1(Tried(mgr))} :
             \E completed \in {IF ok \/ m.pending_moves[m.i].attempts >= GiveUpAfter
                               THEN Append(m.completed, m.i)
                               ELSE m.completed} :
                /\ mgr' = Continue(m, m.i + 1, completed, disk')
                /\ store' = IF PassSaves(m, m.i + 1, completed, disk')
                            THEN Some(Saved(Continue(m, m.i + 1, completed, disk')))
                            ELSE store
    /\ UNCHANGED <<coordinator, expose_variants, camera, application, config_entries,
                   recording, refreshes, environment, memory>>

\* lines 81-91: async_stop cancels the task where it is suspended and saves
\* the state; a move the executor had begun ends or not
async_stop ==
    /\ mgr.running
    /\ \E landed \in BOOLEAN :
          /\ landed => /\ mgr.pc = "moving"
                       /\ Exists(disk, mgr.pending_moves[mgr.i].source)
          /\ disk' = IF landed
                     THEN [disk EXCEPT ![mgr.pending_moves[mgr.i].source] = "remote"]
                     ELSE disk
          /\ moves' = IF landed
                      THEN moves \cup {[source |-> mgr.pending_moves[mgr.i].source,
                                        enable_auto_move |-> mgr.enable_auto_move]}
                      ELSE moves
    /\ mgr' = [mgr EXCEPT !.pc = "stopped", !.running = FALSE, !.i = 0,
                          !.completed = <<>>]
    /\ store' = Some(Saved(mgr))
    /\ UNCHANGED <<coordinator, expose_variants, camera, application, config_entries,
                   recording, refreshes, environment, memory>>

\* a local recording is deleted
FileVanishes(f) ==
    /\ disk[f] = "local"
    /\ disk' = [disk EXCEPT ![f] = "gone"]
    /\ UNCHANGED <<mgr, store, moves>>
    /\ UNCHANGED <<coordinator, expose_variants, camera, application, config_entries,
                   recording, refreshes, environment, memory>>

NextFiles ==
    \/ \E remote \in BOOLEAN, enable_auto_move \in BOOLEAN :
          NewManager(remote, enable_auto_move)
    \/ async_start
    \/ \E f \in Files : queue_file_move(f)
    \/ \E reachable \in BOOLEAN : NasChecked(reachable)
    \/ \E ok \in BOOLEAN : MoveDone(ok)
    \/ async_stop
    \/ \E f \in Files : FileVanishes(f)

SpecFiles == Init /\ [][NextFiles]_vars

-----------------------------------------------------------------------------
(* The coordinator, a relay that accepts every call, and the camera platform *)
(* listening to the coordinator. A refresh cycle is one step here: nothing   *)
(* else runs on the coordinator's state while _async_update_data is          *)
(* suspended, and the listener is called when the refresh has ended.         *)

\* the manifest responses the iterations for the gathered pairs from the
\* i-th on can meet
RECURSIVE ManifestChoices(_, _)
ManifestChoices(gath, i) ==
    IF i > Len(gath) THEN {<<>>}
    ELSE {<<mresp>> \o rest : mresp \in ManifestInputs(gath[i]),
                              rest \in ManifestChoices(gath, i + 1)}

\* the refreshes followed
MaxRefreshes == 3

\* lines 83-101 for the gathered pairs from the i-th on, each taken against
\* the state before the cycle (an iteration reads and writes the entries of
\* its own model, and a model is gathered once), the relay accepting every call
RECURSIVE IterationsFrom(_, _, _)
IterationsFrom(gath, ms, i) ==
    IF i > Len(gath) THEN <<>>
    ELSE <<Iteration(gath[i], ms[i], [k \in 1..NeededCalls(gath[i], ms[i]) |-> "ok"])>>
         \o IterationsFrom(gath, ms, i + 1)

\* the iteration of lines 83-101 at which the loop ends: the first that
\* raises, or the last
LastIteration(its) ==
    LET raising == {i \in 1..Len(its) : its[i].entry.raised # NoException}
    IN IF raising = {} THEN Len(its)
       ELSE CHOOSE i \in raising : \A j \in raising : i <= j

RECURSIVE RelayAfterIterations(_, _, _)
RelayAfterIterations(streams, its, n) ==
    IF n = 0 THEN streams
    ELSE RelayAfterAll(RelayAfterIterations(streams, its, n - 1), its[n].entry.calls)

\* lines 79-102 for the gathered pairs and these iterations: what the cycle
\* leaves in _last_status, _active_streams and the relay, whether it raised,
\* and the collection it returns
CycleOf(gath, its) ==
    LET n == LastIteration(its)
        iterated == {models[i] : i \in 1..n}
        At(m) == CHOOSE i \in 1..n : models[i] = m
    IN [last_status |->
            [m \in DOMAIN last_status \cup iterated |->
                IF m \in iterated THEN gath[At(m)].state.status ELSE last_status[m]],
        active_streams |->
            [m \in ((DOMAIN active_streams) \ iterated)
                   \cup {x \in iterated : x \in DOMAIN its[At(x)].streams} |->
                IF m \in iterated THEN its[At(m)].streams[m] ELSE active_streams[m]],
        relay |-> RelayAfterIterations(relay, its, n),
        raised |-> n > 0 /\ its[n].entry.raised # NoException,
        results |-> [m \in iterated |-> its[At(m)].state]]

\* what the pollers of lines 80-82 can return when none raises
Gathers ==
    { gath \in { [i \in 1..Len(models) |-> _fetch_one(models[i], resp[models[i]])] :
                   resp \in { r \in [Rooms -> UNION {PollResponses(m) : m \in Rooms}] :
                                \A m \in Rooms : r[m] \in PollResponses(m) } } :
        \A i \in 1..Len(gath) : gath[i].raised = NoException }

\* the cycles the coordinator can run from the current state
Cycles ==
    UNION { { CycleOf(gath, IterationsFrom(gath, ms, 1)) : ms \in ManifestChoices(gath, 1) } :
            gath \in Gathers }

\* one refresh, lines 79-102, against a relay that accepts every call, then,
\* when it succeeded and the platform listens, camera.py lines 72-92
RefreshAndReconcile ==
    /\ pc = "idle"
    /\ refreshes < MaxRefreshes
    /\ refreshes' = refreshes + 1
    /\ \E c \in Cycles :
          LET wants == desired_aliases(Some(c.results), expose_variants)
              add == AddNew(wants, known, entities_by_alias, created_count, 1)
              rem == RemoveGone(wants, add.known, add.entities)
          IN /\ last_status' = c.last_status
             /\ active_streams' = c.active_streams
             /\ relay' = c.relay
             /\ IF c.raised
                THEN UNCHANGED <<data, camera>>
                ELSE /\ data' = Some(c.results)
                     /\ IF listening
                        THEN /\ add.count <= MaxCreated
                             /\ known' = rem.known
                             /\ entities_by_alias' = rem.entities
                             /\ created_count' = add.count
                             /\ last_pass' = Some(Pass(Keys(wants), known,
                                                       add.created, rem.destroyed))
                             /\ removing' = removing \cup
                                                Scheduled(add.entities, rem.destroyed)
                             /\ UNCHANGED listening
                        ELSE UNCHANGED camera
    /\ UNCHANGED <<pc, gathered, idx, results, log, steady>>
    /\ UNCHANGED <<expose_variants, application, config_entries, recording, storage,
                   memory>>

\* camera.py lines 60-94 on the data of the first refresh
SetupCameras ==
    /\ ~IsNone(data)
    /\ async_setup_entry

\* a task scheduled at camera.py line 91 ends: the entity is removed from the host
async_remove ==
    /\ \E ent \in removing : removing' = removing \ {ent}
    /\ UNCHANGED <<known, entities_by_alias, created_count, listening, last_pass>>
    /\ UNCHANGED <<coordinator, expose_variants, application, host, environment, memory>>

NextPlatform == RefreshAndReconcile \/ SetupCameras \/ async_remove

SpecPlatform == Init /\ [][NextPlatform]_vars

-----------------------------------------------------------------------------
(* Vocabulary of the properties *)

Entries == {log[i] : i \in 1..Len(log)}
Elems(seq) == {seq[i] : i \in 1..Len(seq)}
Count(calls, op, name) ==
    Cardinality({i \in 1..Len(calls) : calls[i].op = op /\ calls[i].name = name})
Removes(e) == {i \in 1..Len(e.calls) : e.calls[i].op = "DELETE"}
Upserts(e) == {i \in 1..Len(e.calls) : e.calls[i].op = "PUT"}
CallNames(e) == [i \in 1..Len(e.calls) |-> e.calls[i].name]
Published == IF IsNone(data) THEN EmptyDict ELSE data[1]
MaxBandwidth(vs) == CHOOSE b \in {vs[i].bandwidth : i \in 1..Len(vs)} :
                        \A i \in 1..Len(vs) : vs[i].bandwidth <= b

\* the relay calls an iteration makes when it runs to its end
ExpectedCallNames(e) ==
    IF e.status = "public" /\ Truthy(e.url)
    THEN IF e.variants = <<>> THEN <<>>
         ELSE [i \in 1..Len(e.variants) |-> VariantName(e.model, e.variants[i])] \o <<e.model>>
    ELSE IF e.prev = Some("public") THEN e.recorded
    ELSE <<>>

-----------------------------------------------------------------------------
(* Properties *)

\* C1: in an iteration whose room had previous status public and has a new
\* status that is not public, each recorded alias name of the room gets exactly
\* one DELETE, no other name gets one, an iteration without that transition
\* issues no DELETE, and all of it is in the log before the cycle returns.
C1_OneRemovePerAlias ==
    \A e \in Entries :
        IF e.prev = Some("public") /\ e.status # "public"
        THEN /\ \A n \in Elems(e.recorded) : Count(e.calls, "DELETE", n) = 1
             /\ \A i \in Removes(e) : e.calls[i].name \in Elems(e.recorded)
        ELSE Removes(e) = {}

\* C2: no refresh cycle ends in an exception, and a cycle that returns has a
\* snapshot for every configured room.
C2_CycleAlwaysPublishes ==
    /\ pc # "raise"
    /\ pc = "return" => DOMAIN results = Rooms

\* C3: an iteration whose manifest fetch met a transport error raises nothing,
\* has no variants, and leaves the room's snapshot with status public.
C3_TransportErrorYieldsNoVariants ==
    \A e \in Entries :
        e.manifest \in {"ClientError", "TimeoutError"} =>
            /\ e.raised = NoException
            /\ e.variants = <<>>
            /\ results[e.model].status = "public"

\* C4: no poller raises, whatever the status endpoint answered.
C4_PollerNeverRaises ==
    \A i \in 1..Len(gathered) : gathered[i].raised = NoException

\* C5: in the published collection, a snapshot whose status is not public has
\* variants None and variant_stream_names None.
C5_NonPublicHasNoVariants ==
    \A m \in DOMAIN Published :
        Published[m].status # "public" =>
            /\ IsNone(Published[m].variants)
            /\ IsNone(Published[m].variant_stream_names)

\* a published collection holds a snapshot that is not public and carries a url,
\* next to one that has variants
C5_Witness ==
    /\ "alice" \in DOMAIN Published /\ "bob" \in DOMAIN Published
    /\ Published["alice"].status = "private"
    /\ Truthy(Published["alice"].url)
    /\ ~IsNone(Published["bob"].variants)

\* C6: every iteration for a public room with a url that ran to its end issued
\* a PUT for the alias named like the room, and with no variants that PUT
\* points at the room's playback url.
C6_BestAliasAlwaysUpserted ==
    \A e \in Entries :
        (e.status = "public" /\ Truthy(e.url) /\ e.raised = NoException) =>
            \E i \in Upserts(e) :
                /\ e.calls[i].name = e.model
                /\ e.variants = <<>> => e.calls[i].src.url = e.url[1]

\* C7: with preference "best" and at least one variant, the PUT for the alias
\* named like the room points at a variant of maximum bandwidth.
C7_BestAliasHasMaxBandwidth ==
    \A e \in Entries :
        (preferred_quality = Best /\ e.variants # <<>> /\ e.raised = NoException) =>
            \A i \in Upserts(e) :
                e.calls[i].name = e.model =>
                    \E k \in 1..Len(e.variants) :
                        /\ e.variants[k].url = e.calls[i].src.url
                        /\ e.variants[k].bandwidth = MaxBandwidth(e.variants)

C9_PublicWithoutUrlIsCleanedUp ==
    \A e \in Entries :
        (e.prev = Some("public") /\ e.recorded # <<>>
            /\ e.status = "public" /\ ~Truthy(e.url)) =>
            \A n \in Elems(e.recorded) : Count(e.calls, "DELETE", n) >= 1

\* C10: an iteration in which a relay call failed raised nothing and made all
\* of its calls; no exception other than a fetch's leaves an iteration, and a
\* cycle that returns has iterated over every room.
C10_RelayFailureSwallowed ==
    /\ \A e \in Entries :
           /\ e.failed => e.raised = NoException /\ CallNames(e) = ExpectedCallNames(e)
           /\ e.raised \in {NoException, "UnboundLocalError"}
    /\ pc = "return" => Len(log) = Len(models) /\ DOMAIN results = Rooms

\* alice's iteration had a failing relay call, bob's came after it and made
\* its calls, and the cycle is about to return
C10_Witness ==
    /\ pc = "return"
    /\ Len(log) = 2
    /\ log[1].failed /\ Len(log[1].calls) > 1
    /\ log[2].calls # <<>>

\* C11: with the expose_variants option off, no iteration issues a PUT for a
\* name other than the room's own, and neither a snapshot's alias list nor the
\* coordinator's recorded list holds a name other than the room's own.
C11_NoVariantAliasWhenHidden ==
    ~expose_variants =>
        /\ \A e \in Entries : \A i \in Upserts(e) : e.calls[i].name = e.model
        /\ \A m \in DOMAIN results :
               ~IsNone(results[m].variant_stream_names) =>
                   Elems(results[m].variant_stream_names[1]) \subseteq {m}
        /\ \A m \in DOMAIN active_streams : Elems(active_streams[m]) \subseteq {m}

\* C12: a reconciliation pass that met desired key set W and known key set K
\* constructed an entity exactly for the keys of W \ K, scheduled the removal
\* exactly of the keys of K \ W, left the entities of W \cap K as they were
\* constructed before the pass, and left known (and the entity dict) at W.
C12_PassCreatesAndDestroysExactly ==
    ~IsNone(last_pass) =>
        LET p == last_pass[1]
        IN /\ p.created = p.wants \ p.before
           /\ p.destroyed = p.before \ p.wants
           /\ known = p.wants
           /\ DOMAIN entities_by_alias = p.wants
           /\ \A a \in p.wants \cap p.before :
                  entities_by_alias[a].id <= created_count - Cardinality(p.created)

\* the latest pass had something to create, something to destroy and
\* something to leave alone
C12_Witness ==
    /\ ~IsNone(last_pass)
    /\ last_pass[1].wants \ last_pass[1].before # {}
    /\ last_pass[1].before \ last_pass[1].wants # {}
    /\ last_pass[1].wants \cap last_pass[1].before # {}

\* the rooms whose published snapshot is public
PublicRooms == {m \in Rooms : m \in DOMAIN Published /\ Published[m].status = "public"}

\* C13: the desired set computed from the published collection holds the
\* room's own name for every room whose snapshot is public; an alias other
\* than its room's name is in it only if expose_variants is on and the alias is
\* in that room's variant_stream_names; every key belongs to a room whose
\* snapshot is there and public; and once the platform listens, known is that set.
C13_DesiredSetFollowsSnapshots ==
    LET wants == desired_aliases(data, expose_variants)
    IN /\ \A m \in PublicRooms : m \in Keys(wants)
       /\ \A i \in 1..Len(wants) :
              /\ wants[i].model \in PublicRooms
              /\ wants[i].alias # wants[i].model =>
                     /\ expose_variants
                     /\ Truthy(Published[wants[i].model].variant_stream_names)
                     /\ InList(wants[i].alias,
                               Published[wants[i].model].variant_stream_names[1])
       /\ listening => known = Keys(wants)

\* the option is off, alice is public with a variant name in its snapshot,
\* bob is not public, and alice's own name is the only key
C13_Witness ==
    /\ listening
    /\ ~expose_variants
    /\ PublicRooms = {"alice"}
    /\ Truthy(Published["alice"].variant_stream_names)
    /\ InList("alice_720p", Published["alice"].variant_stream_names[1])
    /\ known = {"alice"}

\* C14: in every step, a key that is known before the step and wanted by the
\* collection the step publishes keeps the entity object it had, and the
\* pass of that step neither creates nor destroys it.
C14_KnownAndWantedIsKept ==
    [][\A a \in known \cap Keys(desired_aliases(data', expose_variants)) :
           /\ a \in DOMAIN entities_by_alias'
           /\ entities_by_alias'[a] = entities_by_alias[a]
           /\ ~IsNone(last_pass') =>
                  a \notin last_pass'[1].created \cup last_pass'[1].destroyed]_vars

\* the first entity ever constructed is still there after passes that
\* constructed and destroyed others around it
C14_Witness ==
    /\ ~IsNone(last_pass)
    /\ created_count >= 4
    /\ last_pass[1].destroyed # {}
    /\ \E a \in last_pass[1].before \cap last_pass[1].wants : entities_by_alias[a].id = 1

NoDuplicates(seq) == \A i, j \in 1..Len(seq) : seq[i] = seq[j] => i = j

\* C15: no alias name occurs twice in a snapshot's variant_stream_names of
\* this cycle nor in the coordinator's recorded list of a room.
C15_AliasNamesAreUnique ==
    /\ \A m \in DOMAIN results :
           ~IsNone(results[m].variant_stream_names) =>
               NoDuplicates(results[m].variant_stream_names[1])
    /\ \A m \in DOMAIN active_streams : NoDuplicates(active_streams[m])

Applied(fn) == ~IsNone(call) /\ ~IsNone(ret) /\ call[1].fn = fn

\* C16: under the preference "best" the sorted list is in order of bandwidth
\* descending and, among variants of equal bandwidth, of resolution height
\* descending.
C16_BestOrdersByBandwidthThenHeight ==
    (Applied("variants.sort") /\ call[1].pref = Best) =>
        \A i, j \in 1..Len(ret[1]) :
            i < j =>
                \/ ret[1][i].bandwidth > ret[1][j].bandwidth
                \/ /\ ret[1][i].bandwidth = ret[1][j].bandwidth
                   /\ _res_key(ret[1][i].resolution) >= _res_key(ret[1][j].resolution)

\* C17: under a target-height preference, when a variant of the list has the
\* target as its resolution height, the first variant of the sorted list has it.
C17_ExactHeightRanksFirst ==
    (Applied("variants.sort") /\ call[1].pref # Best) =>
        ((\E i \in 1..Len(call[1].variants) :
              _res_key(call[1].variants[i].resolution) = _res_to_num(call[1].pref))
         => _res_key(ret[1][1].resolution) = _res_to_num(call[1].pref))

\* the variant the stream-info line at index i announces: its url is the line
\* that does not start with "#" and has only comment lines between i and itself
NextUriAfter(lines, i) ==
    {k \in (i+1)..Len(lines) :
        ~StartsWithHash(lines[k]) /\ \A n \in (i+1)..(k-1) : lines[n].kind = "comment"}
Announced(lines, master_url) ==
    { <<i, Variant(IF IsNone(lines[i].bw) THEN 0 ELSE lines[i].bw[1],
                   IF IsNone(lines[i].res) THEN <<>> ELSE lines[i].res[1],
                   urljoin(master_url, lines[k].ref))>> :
        <<i, k>> \in { p \in (1..Len(lines)) \X (1..Len(lines)) :
                         lines[p[1]].kind = "inf" /\ p[2] \in NextUriAfter(lines, p[1]) } }

\* C18: the parser returns one variant for every stream-info line that is
\* followed, directly or after comment lines only, by a line that does not
\* start with "#", with that line as its url, and no other variant.
C18_NextNonCommentLineIsTheUrl ==
    (Applied("_fetch_variants") /\ call[1].resp.kind = "http") =>
        LET announced == Announced(call[1].resp.lines, call[1].master_url)
        IN /\ Len(ret[1].variants) = Cardinality(announced)
           /\ \A a \in announced : InList(a[2], ret[1].variants)

\* C19: a manifest that was fetched and holds no stream-info line gives an
\* empty variant list and no exception.
C19_NoStreamInfoGivesEmptyList ==
    (/\ Applied("_fetch_variants")
     /\ call[1].resp.kind = "http"
     /\ \A i \in 1..Len(call[1].resp.lines) : call[1].resp.lines[i].kind # "inf") =>
        ret[1].raised = NoException /\ ret[1].variants = <<>>

\* the parser returned from a manifest of a comment line and two URI lines
C19_Witness ==
    /\ Applied("_fetch_variants")
    /\ call[1].resp.kind = "http"
    /\ call[1].resp.status = 200
    /\ Len(call[1].resp.lines) = 3
    /\ call[1].resp.lines[1].kind = "comment"
    /\ call[1].resp.lines[2].kind = "uri"
    /\ call[1].resp.lines[3].kind = "uri"

\* C20: the poller's snapshot for an answer whose status is not 200 is the
\* default one (status offline, url, title and viewer count None), and the
\* poller does not raise.
C20_Non200GivesOfflineSnapshot ==
    (/\ Applied("_fetch_one")
     /\ call[1].resp.kind = "http"
     /\ call[1].resp.status # 200) =>
        /\ ret[1].raised = NoException
        /\ ret[1].state = ModelState("offline", None, None, None, None, None)

\* C21: the poller's snapshot for a status request that met a transport error,
\* or whose body is not JSON, is the default one (status offline, url, title
\* and viewer count None), and the poller does not raise.
C21_FailureGivesOfflineSnapshot ==
    (/\ Applied("_fetch_one")
     /\ \/ call[1].resp.kind # "http"
        \/ call[1].resp.body.json \in {"invalid", "empty"}) =>
        /\ ret[1].raised = NoException
        /\ ret[1].state = ModelState("offline", None, None, None, None, None)

C27_NoStreamLeftAfterGoingNonPublic ==
    \A e \in Entries :
        (e.prev = Some("public") /\ e.status # "public" /\ e.raised = NoException) =>
            DOMAIN RoomStreams(relay, e.model) = {}

\* C23: an iteration for a room that is public with a playback url and was
\* public in the cycle before, whatever the relay answered then, issues a PUT
\* for the room's own alias and for the alias of every variant of its manifest.
C23_UpsertsIssuedAgainEveryCycle ==
    \A e \in Entries :
        (e.prev = Some("public") /\ e.status = "public" /\ Truthy(e.url)) =>
            /\ \E i \in Upserts(e) : e.calls[i].name = e.model
            /\ \A k \in 1..Len(e.variants) :
                   \E i \in Upserts(e) : e.calls[i].name = VariantName(e.model, e.variants[k])

\* C24: the dict that coordinator.data refers to, with the ModelState objects
\* and lists in it, has at every moment the value it was published with; and
\* the dict a cycle is building, with the ModelState objects gathered for it
\* and their lists, shares no object with the published one.
C24_PublishedCollectionIsNeverModified ==
    /\ IsNone(data) <=> refs.data = NoRef
    /\ refs.data # NoRef => CollectionValue(heap, refs.data) = data[1]
    /\ Reach(heap, {refs.results} \cup {refs.gathered[i] : i \in 1..Len(refs.gathered)})
           \cap Reach(heap, {refs.data}) = {}

\* the published snapshot of alice shares its alias list with the recorded
\* list of an earlier moment, and the cycle under way has removed alice's
\* streams and given the room a new recorded list
C24_Witness ==
    /\ refs.data # NoRef
    /\ pc = "return"
    /\ \E e \in Entries : e.model = "alice" /\ Removes(e) # {}
    /\ Len(data[1]["alice"].variant_stream_names[1]) = 3
    /\ heap[refs.streams["alice"]].items = <<>>
    /\ refs.streams["alice"] # heap[heap[refs.data].items["alice"]].names

\* the name C25 states for a variant of room m
HasHeight(res) ==
    Len(res) = 3 /\ IsDigits(res[1]) /\ res[2] = Chars("x") /\ IsDigits(res[3])
StatedName(m, v) ==
    IF HasHeight(v.resolution)
    THEN m \o "_" \o ToString(v.resolution[3].n) \o "p"
    ELSE m \o "_" \o ToString(v.bandwidth \div 1000) \o "k"

\* C25: _upsert_variants names the alias of a variant of room R R_{H}p when
\* the resolution is WxH with integers W and H, and R_{bandwidth div 1000}k
\* otherwise, in its returned list and in its PUTs; and the PUT of
\* _upsert_alias_from_variant for room R carries the name R.
C25_AliasNames ==
    /\ Applied("_upsert_variants") =>
           /\ Len(ret[1].names) = Len(call[1].variants)
           /\ Len(ret[1].calls) = Len(call[1].variants)
           /\ \A i \in 1..Len(call[1].variants) :
                  /\ ret[1].names[i] = StatedName(call[1].model, call[1].variants[i])
                  /\ ret[1].calls[i].name = StatedName(call[1].model, call[1].variants[i])
    /\ Applied("_upsert_alias_from_variant") => ret[1].call.name = call[1].alias

\* bob's variants 1280x720 and one without a resolution have been named
C25_Witness ==
    /\ Applied("_upsert_variants")
    /\ call[1].model = "bob"
    /\ Len(call[1].variants) = 2
    /\ call[1].variants[1].resolution = R720
    /\ call[1].variants[2].resolution = <<>>
    /\ call[1].variants[2].bandwidth = 1200500
    /\ ret[1].names = <<"bob_720p", "bob_1200k">>

\* C26: a config entry whose setup has ended has its data, with its
\* coordinator and its file manager, under its entry id in hass.data[DOMAIN]
\* and the setup returned True; an unload of it that the host's platforms
\* accepted has ended with True returned and no data under the entry id.
C26_SetupStoresAndUnloadRemoves ==
    \A e \in EntryIds :
        /\ entries[e].pc = "loaded" =>
               /\ entries[e].result = Returned(TRUE)
               /\ e \in DOMAIN hass_data
               /\ hass_data[e].coordinator = entries[e].coord[1]
               /\ hass_data[e].file_manager = entries[e].file_manager[1]
        /\ (entries[e].pc \in {"unloaded", "unload_raised"}
                /\ entries[e].unload_ok = Some(TRUE)) =>
               /\ entries[e].result = Returned(TRUE)
               /\ e \notin DOMAIN hass_data

\* C28: at most one subprocess created by the switch's recorder is alive, and
\* an alive subprocess is the one the recorder's process field refers to.
C28_OneRecordingProcess ==
    /\ Cardinality(Alive) <= 1
    /\ \A p \in Alive : rec.process = Some(p)

\* C29: with a relay that accepts every call, between refresh cycles every
\* alias of the camera platform's known set is a stream the relay holds.
C29_KnownAliasesAreRegistered ==
    (listening /\ pc = "idle") => \A alias \in known : alias \in DOMAIN relay

\* the entities the host holds: those of camera_entities and those whose
\* removal has not ended
LiveEntities == {entities_by_alias[a] : a \in DOMAIN entities_by_alias} \cup removing

\* C30: no two entities the host holds have the same alias: no entity is
\* created for an alias while the removal of that alias' previous entity is
\* pending.
C30_OneLiveEntityPerAlias ==
    \A e1, e2 \in LiveEntities : e1.alias = e2.alias => e1 = e2

\* C31: the session of an entry's coordinator is bound (async_setup has run)
\* whenever its first refresh is under way, so that no poll, manifest fetch or
\* relay call of that refresh is attempted on an unset session.
C31_SessionBoundBeforeFirstRefresh ==
    \A e \in EntryIds :
        entries[e].pc = "first_refresh" => ~IsNone(entries[e].coord[1].session)

\* C32: when no refresh is under way (every attempt has returned or raised),
\* the previous status remembered for a room is the status of its snapshot in
\* the published collection, and nothing is remembered for a room that has
\* no published snapshot.
C32_RememberedStatusIsPublishedStatus ==
    pc = "idle" =>
        \A m \in Rooms :
            IF m \in DOMAIN Published
            THEN DictGet(last_status, m, "") = Published[m].status
            ELSE m \notin DOMAIN last_status

\* C33: in every iteration that ran to its end with a non-empty variant list
\* returned by _fetch_variants, the one PUT for the alias named like the room
\* is the iteration's last call and its source is built from the url of the
\* last element of that list.
C33_BestAliasSourceIsLastVariant ==
    \A e \in Entries :
        (e.variants # <<>> /\ e.raised = NoException) =>
            /\ \A i \in Upserts(e) : e.calls[i].name = e.model <=> i = Len(e.calls)
            /\ Len(e.calls) = Len(e.variants) + 1
            /\ e.calls[Len(e.calls)] =
                   RelayCall("PUT", e.model,
                             SourceSpec(e.variants[Len(e.variants)].url, e.model))

\* an iteration upserted the room's alias from a list of several variants whose
\* first and last urls differ
C33_Witness ==
    \E e \in Entries :
        /\ e.raised = NoException
        /\ Len(e.variants) >= 2
        /\ e.variants[1].url # e.variants[Len(e.variants)].url
        /\ e.calls[Len(e.calls)].name = e.model

\* C34: when async_unload_entry of a set-up entry has ended, by returning or
\* by raising, the entry's file manager is stopped.
C34_UnloadStopsFileManager ==
    \A e \in EntryIds :
        entries[e].pc \in {"unloaded", "unload_raised"} =>
            /\ ~IsNone(entries[e].file_manager)
            /\ ~entries[e].file_manager[1].running

\* the recorder's subprocess is there and has not ended
Recording == ~IsNone(rec.process) /\ procs[rec.process[1]].state = "alive"

\* C35 as stated: when an async_update of the switch has returned and no other
\* coroutine of the switch ran since it began, the recorder is running if and
\* only if the switch is armed and the update read the room as live.
C35_RunningIffArmedAndLive ==
    ~IsNone(finished) => (Recording <=> (switch.armed /\ finished[1].live))

\* C35, amended: such an update created a subprocess exactly when the switch
\* was armed, the room live and the recorder not running, and stopped the
\* recorder exactly when it was running with the switch not armed or the room
\* not live; when it returns the recorder is not running unless armed and
\* live, and with armed and live it is running, or else the subprocess this
\* update created has ended by itself, unsignalled, and is still held.
C35_RunningIffArmedAndLiveUnlessExited ==
    ~IsNone(finished) =>
        LET f == finished[1]
            wanted == switch.armed /\ f.live
        IN /\ ~IsNone(f.spawned) <=> (wanted /\ ~f.running)
           /\ ~IsNone(f.stopped) <=> (f.running /\ ~wanted)
           /\ ~wanted => ~Recording
           /\ wanted =>
                  \/ Recording
                  \/ /\ ~IsNone(f.spawned)
                     /\ rec.process = f.spawned
                     /\ procs[f.spawned[1]] = Process("exited", <<>>)

\* an update that ran alone has started the recorder, which is running, after
\* an earlier subprocess was stopped
C35_Witness ==
    /\ ~IsNone(finished)
    /\ finished[1].spawned = Some(2)
    /\ Recording
    /\ procs[1] = Process("exited", <<"SIGINT">>)

\* the signals sent to the subprocesses so far
SignalsSent == [p \in 1..Len(procs) |-> procs[p].signals]

\* the latest call of the recorder's caller, once it has returned
LastCall == IF client.pc = "idle" THEN client.call ELSE None

\* C36: when stop() has returned from a call made on a running process, that
\* process was sent SIGINT first, and SIGKILL after it exactly when the wait
\* timed out; the recorder then holds no process and no current file and
\* is_running() is false.
C36_GracefulStopThenKill ==
    \A c \in Elems(LastCall) :
        (c.op = "stop" /\ c.running) =>
            LET p == c.before.process[1]
            IN /\ c.signals[p] = <<>>
               /\ procs[p].signals =
                      IF c.timed_out THEN <<"SIGINT", "SIGKILL">> ELSE <<"SIGINT">>
               /\ c.raised = NoException
               /\ IsNone(rec.process)
               /\ IsNone(rec.current_file)
               /\ ~is_running(rec)

\* a stop() has returned whose wait timed out, after a stop() of an earlier
\* process that ended within the wait
C36_Witness ==
    \E c \in Elems(LastCall) :
        /\ c.op = "stop" /\ c.running /\ c.timed_out
        /\ c.before.process = Some(2)
        /\ procs[1] = Process("exited", <<"SIGINT">>)
        /\ procs[2] = Process("exited", <<"SIGINT", "SIGKILL">>)

\* C37: a start() made while a process was running has created no subprocess,
\* left the recorder as it was and returned its current file; a stop() made
\* while no process was held, in particular one that follows a stop(), has
\* left the recorder as it was and sent no signal.
C37_StartAndStopAreIdempotent ==
    \A c \in Elems(LastCall) :
        /\ (c.op = "start" /\ c.running) =>
               /\ Len(procs) = Len(c.signals)
               /\ rec = c.before
               /\ c.ret = c.before.current_file
               /\ ~IsNone(c.ret)
        /\ (c.op = "stop" /\ IsNone(c.before.process)) =>
               /\ rec = c.before
               /\ SignalsSent = c.signals
        /\ (c.op = "stop" /\ c.prev # <<>> /\ c.prev[Len(c.prev)].op = "stop") =>
               /\ IsNone(c.before.process)
               /\ rec = NewRecorder
               /\ SignalsSent = c.signals

\* a start() on a running process, a stop() of it and a second stop() have
\* returned
C37_Witness ==
    \E c \in Elems(LastCall) :
        /\ c.op = "stop"
        /\ c.prev = <<[op |-> "start", running |-> TRUE], [op |-> "stop", running |-> TRUE]>>
        /\ Len(procs) = 2


\* the entries the latest pass took from the queue had been moved, or their
\* source no longer existed, or their count of failed attempts had reached 5
LeftWhenDone ==
    \A k \in 1..Len(mgr.removed) :
        \/ mgr.removed[k].file \in {"remote", "gone"}
        \/ mgr.removed[k].attempts >= GiveUpAfter

\* no entry, queued or taken from the queue, has been attempted more than 5 times
TriedAtMostFive ==
    /\ \A k \in 1..Len(mgr.pending_moves) : mgr.pending_moves[k].tried <= GiveUpAfter
    /\ \A k \in 1..Len(mgr.removed) : mgr.removed[k].tried <= GiveUpAfter

\* every failed attempt is in the entry's count: the attempts on a queued
\* entry are its count, and one more when the file has been moved
FailuresCounted ==
    \A k \in 1..Len(mgr.pending_moves) :
        \/ mgr.pending_moves[k].tried = mgr.pending_moves[k].attempts
        \/ /\ mgr.pending_moves[k].tried = mgr.pending_moves[k].attempts + 1
           /\ disk[mgr.pending_moves[k].source] = "remote"

\* after a pass, pending_files is the length of the queue
PendingFilesIsLength ==
    mgr.pc = "sleep" => mgr.pending_files = Len(mgr.pending_moves)

\* C38: a queued move leaves the pending queue only when the file was moved, its
\* source no longer exists or its failed attempts reached 5; every failed attempt
\* adds one to the count and no entry is attempted more than 5 times; after
\* every pass pending_files is the length of the queue.
C38_QueuedMoveLeavesWhenDoneWithinFiveAttempts ==
    /\ LeftWhenDone
    /\ FailuresCounted
    /\ TriedAtMostFive
    /\ PendingFilesIsLength

\* C39: a file manager whose auto-move is disabled never moves a file to the
\* remote path, whatever pending moves its start restored and whether or not the
\* remote path is reachable.
C39_NoMoveWhileAutoMoveDisabled ==
    \A m \in moves : m.enable_auto_move

\* the iteration saw the room leave the public status and ran the cleanup
CleanedUp(e) == e.prev = Some("public") /\ e.status # "public"

\* C40: the cleanup of a room issues a DELETE for every recorded alias, in
\* order, whether or not one of them failed, raises nothing and leaves the
\* room's recorded list empty; the following cycles, which find the room's
\* previous status not public, issue no DELETE.
C40_CleanupOutlastsFailedRemoves ==
    /\ \A e \in Entries :
           CleanedUp(e) =>
               /\ e.raised = NoException
               /\ CallNames(e) = e.recorded
               /\ Removes(e) = 1..Len(e.calls)
               /\ e.model \in DOMAIN active_streams
               /\ active_streams[e.model] = <<>>
    /\ \A e \in Entries :
           (~IsNone(e.prev) /\ e.prev # Some("public")) => Removes(e) = {}

\* a cleanup of at least two recorded aliases in which a DELETE failed
C40_Witness ==
    \E e \in Entries :
        /\ CleanedUp(e)
        /\ e.failed
        /\ Len(e.recorded) >= 2
        /\ Len(e.calls) = Len(e.recorded)
        /\ active_streams[e.model] = <<>>

====
